---- MODULE Spec2Model ----
(***************************************************************************)
(* EV charging orchestration backend: the charging-plan calculator         *)
(* (backend/services/planner.py), the DID access validator                 *)
(* (backend/services/did_validator.py), the session endpoints             *)
(* (backend/routers/sessions.py), the demand forecaster                    *)
(* (backend/services/forecasting.py) and the forecast endpoint             *)
(* (backend/routers/forecasts.py).                                         *)
(*                                                                         *)
(* Numbers.  The program computes with binary floats; the model computes   *)
(* with exact rationals carried as scaled integers:                        *)
(*   energy        1e-5 kWh            power (inputs)   1 W (1e-3 kW)      *)
(*   power (eff.)  1e-5 kW             SoC (inputs)     0.001 percent      *)
(*   tariff        0.01 EUR/kWh        money            0.01 EUR           *)
(*   instants      ticks, TicksPerHour ticks to the hour                   *)
(* A Python round(x, k) / "%.kf" is RoundHalfEven at that scale.  A        *)
(* quotient is a pair <<n, d>> in lowest terms.  None is <<>> and a        *)
(* present optional value v is <<v>>.                                      *)
(***************************************************************************)
EXTENDS Integers, Sequences, FiniteSets, TLC

VARIABLES
    now,        \* datetime.utcnow(), in ticks since midnight UTC of day 0
    sessions,   \* table charging_sessions: sequence of ChargingSession rows
    inflight,   \* the complete_session requests between their query and their
                \* commit, each with the row it read
    artifact,   \* the file models/demand_forecast.pkl: "missing" | "corrupt" | "ok"
    lastReq,    \* the request of the handler that ran last
    lastResp,   \* what that handler answered and which steps it ran
    call,       \* a direct call of a planner function: its name and arguments
    ret,        \* what that call returned (<<>> while it has not run)
    ret2,       \* what the same call returned when it was made a second time
    history,    \* completed sessions with delivered energy that the demo data
                \* generator wrote to charging_sessions (their number)
    artifactRun,    \* the training run whose dump the artifact file holds
    forecaster,     \* a DemandForecaster instance, and where a train call on it is
    forecasts,      \* table demand_forecasts: the rows by primary key
    forecastCalls   \* forecast requests served so far

\* the state of the forecasting engine
fvars == <<history, artifactRun, forecaster, forecasts, forecastCalls>>

vars == <<now, sessions, inflight, artifact, lastReq, lastResp, call, ret, ret2, fvars>>

None == << >>
Some(v) == <<v>>

(***************************************************************************)
(* Bounds of the model.                                                    *)
(***************************************************************************)
\* resolution of an instant (a datetime has 3,600,000,000 per hour)
TicksPerHour == 4
\* rows the session table may hold
MaxSessions == 2
\* completed sessions the generator's history may hold
MaxRecords == 100
\* training runs
MaxRuns == 2
\* forecast requests
MaxForecastCalls == 3
MaxInflight == 2

(***************************************************************************)
(* Arithmetic.                                                             *)
(***************************************************************************)
Min(a, b) == IF a <= b THEN a ELSE b
Max(a, b) == IF a >= b THEN a ELSE b

RECURSIVE GCD(_, _)
GCD(a, b) == IF b = 0 THEN a ELSE GCD(b, a % b)

\* the quotient n/d (n >= 0, d > 0) in lowest terms
Frac(n, d) == LET g == GCD(n, d) IN <<n \div g, d \div g>>

\* n/d rounded to the nearest integer, ties to the even one (n >= 0, d > 0)
RoundHalfEvenNat(n, d) ==
    LET q == n \div d
        r == n % d
    IN  IF 2 * r < d THEN q
        ELSE IF 2 * r > d THEN q + 1
        ELSE IF q % 2 = 0 THEN q ELSE q + 1

RoundHalfEven(n, d) ==
    IF n >= 0 THEN RoundHalfEvenNat(n, d) ELSE 0 - RoundHalfEvenNat(0 - n, d)

(***************************************************************************)
(* backend/services/planner.py                                             *)
(***************************************************************************)
\* SAFETY_BUFFER = 1.2, in tenths
SAFETY_BUFFER == 12
\* EFFICIENCY_FACTOR = 0.85, in hundredths
EFFICIENCY_FACTOR == 85

\* the first key spelled with an underscore
LIFECYCLE_CRATE_LIMITS_Underscore(lifecycle_status) ==
    CASE lifecycle_status = "IN_USE"      -> 15
      [] lifecycle_status = "SECOND_LIFE" -> 7
      [] lifecycle_status = "END_OF_LIFE" -> 3
      [] lifecycle_status = "UNKNOWN"     -> 10
      [] OTHER                            -> 10

\* LIFECYCLE_CRATE_LIMITS.get(lifecycle_status, 1.0), in tenths.  The key of
\* the first entry is "IN USE", with a space.
LIFECYCLE_CRATE_LIMITS(lifecycle_status) ==
    CASE lifecycle_status = "IN USE"      -> 15
      [] lifecycle_status = "SECOND_LIFE" -> 7
      [] lifecycle_status = "END_OF_LIFE" -> 3
      [] lifecycle_status = "UNKNOWN"     -> 10
      [] OTHER                            -> 10

\* lifecycle_status = bbc_claims.get("lifeCycleStatus", "UNKNOWN") if bbc_claims
LifecycleStatus(bbc_claims) ==
    IF bbc_claims = None THEN "UNKNOWN" ELSE bbc_claims[1]

\* Python truthiness of an Optional[float]: None and 0.0 are false
Truthy(opt) == opt # None /\ opt[1] # 0

\* start_time.hour
HourOf(t) == (t \div TicksPerHour) % 24

\* timedelta(hours=h) for h = <<n, d>>: rounded to the resolution of a datetime
TimedeltaHours(h) == RoundHalfEvenNat(h[1] * TicksPerHour, h[2])

\* every offer built as a discount
IncentiveOffer_Discount(type, value, reason, time_slot) ==
    [type |-> "discount", value |-> value, reason |-> reason, time_slot |-> time_slot]

\* IncentiveOffer(type=..., value=..., reason=..., time_slot=...)
IncentiveOffer(type, value, reason, time_slot) ==
    [type |-> type, value |-> value, reason |-> reason, time_slot |-> time_slot]

\* the clamp at 0 forgotten
ExtraEnergy_Unclamped(needed_trip_energy, current_energy) ==
    needed_trip_energy - current_energy

\* Step 3: max(0, needed_trip_energy - current_energy)
ExtraEnergy(needed_trip_energy, current_energy) ==
    Max(0, needed_trip_energy - current_energy)

\* finishing exactly at departure taken for too late
FeasibilityCheck_Strict(finish_time, departure) == finish_time < departure

\* Step 6: finish_time <= trip.departure_time
FeasibilityCheck(finish_time, departure) == finish_time <= departure

\* the cap at 100 forgotten
TargetSoc_Uncapped(target_energy, capacity_kwh) ==
    Frac(target_energy, capacity_kwh)

\* Step 3: the else branch, min(100.0, target_energy / capacity * 100), as <<n, d>>
\* in 0.001 percent
TargetSoc(target_energy, capacity_kwh) ==
    IF target_energy >= 100000 * capacity_kwh
    THEN <<100000, 1>>
    ELSE Frac(target_energy, capacity_kwh)

\* the lifecycle limit left out of the minimum
PowerLimit_NoLifecycle(charger_w, vehicle_w, max_safe_w) ==
    Min(charger_w, vehicle_w)

\* min(charger.max_power_kw, vehicle.max_charge_power_kw, max_safe_power_kw), in W
PowerLimit(charger_w, vehicle_w, max_safe_w) ==
    Min(charger_w, Min(vehicle_w, max_safe_w))

\* >= for >
HasFlexibility_Inclusive(slack, charge_time) ==
    slack * charge_time[2] >= (charge_time[1] + 2 * charge_time[2]) * TicksPerHour

\* hours_until_departure > charge_time_hours + 2, for slack in ticks
HasFlexibility(slack, charge_time) ==
    slack * charge_time[2] > (charge_time[1] + 2 * charge_time[2]) * TicksPerHour

\* a ratio of exactly 0.8 taken for peak demand
PeakDemand_Inclusive(forecasted_demand, site_capacity) ==
    forecasted_demand * 10 >= 8 * site_capacity

\* line 125: demand_ratio > 0.8, for demand_ratio = forecasted_demand / site_capacity
PeakDemand(forecasted_demand, site_capacity) ==
    forecasted_demand * 10 > 8 * site_capacity

\* the window closed before hour 16
SolarWindow_HalfOpen(current_hour) == 10 <= current_hour /\ current_hour < 16

\* 10 <= current_hour <= 16
SolarWindow(current_hour) == 10 <= current_hour /\ current_hour <= 16

\* the solar-window rule appending its offer without assigning the type
PlanType_GreenUnset(green, fast, economy) ==
    IF economy THEN "ECONOMY" ELSE IF fast THEN "FAST" ELSE "STANDARD"

\* the first rule that holds wins
PlanType_FirstWins(green, fast, economy) ==
    IF green THEN "GREEN"
    ELSE IF fast THEN "FAST"
    ELSE IF economy THEN "ECONOMY"
    ELSE "STANDARD"

\* Step 8: plan_type, assigned by the rules in source order, the last one wins
PlanType(green, fast, economy) ==
    LET t0 == "STANDARD"
        t1 == IF green THEN "GREEN" ELSE t0
        t2 == IF fast THEN "FAST" ELSE t1
        t3 == IF economy THEN "ECONOMY" ELSE t2
    IN  t3

\* the list outliving the call: the offers of the call before are still in it
EmptyOffers_Kept ==
    IF ret # None /\ ret[1].exc = "none" THEN ret[1].incentive_offers ELSE << >>

\* Step 8, line 119: incentive_offers = [], a new list in every call
EmptyOffers == << >>

\* calculate_charging_plan, evaluated at the instant start_time.  The result
\* is the ChargingPlan, or the exception the call ends with.
calculate_charging_plan(vehicle, trip, charger, driver_preferences, forecasted_demand, site_capacity, bbc_claims, start_time) ==
    LET lifecycle_status == LifecycleStatus(bbc_claims)
        \* Step 1-3
        needed_trip_energy == trip.distance_km * vehicle.nominal_consumption_wh_per_km
                              * SAFETY_BUFFER * 10
        current_energy == vehicle.battery_capacity_kwh * vehicle.current_soc_percent
        extra_energy == ExtraEnergy(needed_trip_energy, current_energy)
        target_soc == IF extra_energy = 0
                      THEN <<vehicle.current_soc_percent, 1>>
                      ELSE TargetSoc(current_energy + extra_energy,
                                     vehicle.battery_capacity_kwh)
        \* Step 4
        crate_limit == LIFECYCLE_CRATE_LIMITS(lifecycle_status)
        max_safe_power == crate_limit * vehicle.battery_capacity_kwh * 100
        effective_power == PowerLimit(charger.max_power_kw,
                                      vehicle.max_charge_power_kw,
                                      max_safe_power) * EFFICIENCY_FACTOR
        charge_time_hours == IF effective_power > 0 /\ extra_energy > 0
                             THEN Frac(extra_energy, effective_power)
                             ELSE <<0, 1>>
        \* Step 5
        finish_time == start_time + TimedeltaHours(charge_time_hours)
        departure == trip.departure_time.t
        \* Step 6
        is_feasible == FeasibilityCheck(finish_time, departure)
        feasibility_warning ==
            IF ~is_feasible
            THEN Some([takes |-> RoundHalfEvenNat(charge_time_hours[1] * 100,
                                                  charge_time_hours[2]),
                       have  |-> RoundHalfEven((departure - start_time) * 100,
                                               TicksPerHour),
                       short |-> RoundHalfEven((finish_time - departure) * 100,
                                               TicksPerHour)])
            ELSE None
        \* Step 7
        base_cost == extra_energy * charger.current_tariff_eur_per_kwh
        \* Step 8
        is_peak_demand ==
            IF Truthy(forecasted_demand) /\ Truthy(site_capacity)
            THEN PeakDemand(forecasted_demand[1], site_capacity[1])
            ELSE FALSE
        delay_rule == /\ is_peak_demand
                      /\ is_feasible
                      /\ HasFlexibility(departure - start_time, charge_time_hours)
        green_rule == /\ driver_preferences.carbon_conscious
                      /\ SolarWindow(HourOf(start_time))
        fast_rule == /\ driver_preferences.priority = "speed"
                     /\ effective_power < charger.max_power_kw * 100
        economy_rule == /\ driver_preferences.priority = "cost"
                        /\ ~is_peak_demand
        incentive_offers ==
            EmptyOffers
            \o (IF delay_rule
                THEN <<IncentiveOffer("discount", 15,
                        "Delay charging by 2 hours to help balance grid load during peak demand",
                        Some(start_time + 2 * TicksPerHour))>>
                ELSE << >>)
            \o (IF green_rule
                THEN <<IncentiveOffer("reward_points", 50,
                        "Charging during solar peak hours (renewable energy available)",
                        None)>>
                ELSE << >>)
            \o (IF economy_rule
                THEN <<IncentiveOffer("discount", 10,
                        "Off-peak charging discount available", None)>>
                ELSE << >>)
    IN  IF trip.departure_time.tz # "naive"
        THEN \* line 103 compares the naive utcnow() with an aware datetime
             [exc |-> "TypeError"]
        ELSE [exc |-> "none",
              needed_trip_energy_kwh |-> needed_trip_energy,
              current_energy_kwh |-> current_energy,
              extra_energy_needed_kwh |-> extra_energy,
              \* round(target_soc, 2), in 0.01 percent
              target_soc_percent |-> RoundHalfEvenNat(target_soc[1], target_soc[2] * 10),
              \* round(charge_time_hours, 3), in 0.001 h
              planned_duration_hours |-> RoundHalfEvenNat(charge_time_hours[1] * 1000,
                                                          charge_time_hours[2]),
              planned_finish_time |-> finish_time,
              is_feasible |-> is_feasible,
              feasibility_warning |-> feasibility_warning,
              \* round(base_cost, 2), in 0.01 EUR
              planned_cost_eur |-> RoundHalfEvenNat(base_cost, 100000),
              \* round(effective_power, 2), in 0.01 kW
              effective_charge_power_kw |-> RoundHalfEvenNat(effective_power, 1000),
              plan_type |-> PlanType(green_rule, fast_rule, economy_rule),
              incentive_offers |-> incentive_offers]

\* the division by planned_energy_kwh forgotten (the ratio is the kWh delivered)
CostRatio_Undivided(energy_delivered_kwh, planned_energy_kwh) ==
    Frac(energy_delivered_kwh, 100000)

\* cost_ratio = energy_delivered_kwh / planned_energy_kwh
CostRatio(energy_delivered_kwh, planned_energy_kwh) ==
    Frac(energy_delivered_kwh, planned_energy_kwh)

\* the discount left out
Discounted_Not(actual_cost, discount_percent) == actual_cost

\* lines 199-201: actual_cost * (1 - discount_percent / 100) if discount_percent > 0
Discounted(actual_cost, discount_percent) ==
    IF discount_percent > 0
    THEN Frac(actual_cost[1] * (100 - discount_percent), actual_cost[2] * 100)
    ELSE actual_cost

\* calculate_actual_cost: planned_cost in 0.001 EUR, energies in 1e-5 kWh,
\* discount_percent in percent; the result in 0.01 EUR
calculate_actual_cost(planned_cost, energy_delivered_kwh, planned_energy_kwh, discount_percent) ==
    LET cost_ratio == CostRatio(energy_delivered_kwh, planned_energy_kwh)
        actual_cost == IF planned_energy_kwh > 0
                       THEN Frac(planned_cost * cost_ratio[1], cost_ratio[2])
                       ELSE <<0, 1>>
        discounted == Discounted(actual_cost, discount_percent)
    IN  RoundHalfEvenNat(discounted[1], discounted[2] * 10)

(***************************************************************************)
(* Direct calls of the planner's functions, as quick_test.py:62 and        *)
(* auto_demo.py:115 make them: the arguments are drawn when the caller     *)
(* builds them, the call runs once.                                        *)
(***************************************************************************)
Capacities == {75}
Socs == {0, 34550, 35000, 35126}
Distances == {120, 300, 600}
Consumptions == {180}
VehiclePowers == {11000, 150000}
ChargerPowers == {6, 50000, 150000}
Tariffs == {35}
Priorities == {"cost", "speed", "carbon"}
BbcClaims == {None, Some("IN USE"), Some("IN_USE"), Some("SECOND_LIFE"),
              Some("END_OF_LIFE")}
\* <<forecasted_demand, site_capacity>>
Forecasts == {<<None, None>>, <<Some(400), Some(500)>>, <<Some(500), Some(500)>>}
\* 09:45 (one tick before 10:00), 10:00, one tick past 16:00, 17:00
Instants == {10 * TicksPerHour - 1, 10 * TicksPerHour,
             16 * TicksPerHour + 1, 17 * TicksPerHour}
\* departure_time - now, in ticks, with the tzinfo of departure_time
Departures == ({0 - 1, 0, 2, 2 * TicksPerHour, 2 * TicksPerHour + 1} \X {"naive"})
              \cup ({0 - 1, 2 * TicksPerHour + 1} \X {"UTC"})

Vehicles ==
    [did : {"did:denso:vehicle:vehicle001"},
     battery_capacity_kwh : Capacities,
     nominal_consumption_wh_per_km : Consumptions,
     max_charge_power_kw : VehiclePowers,
     current_soc_percent : Socs]

Chargers ==
    [did : {"did:denso:charger:site_hq_chr01"},
     site_id : {"site_hq"},
     max_power_kw : ChargerPowers,
     current_availability : {TRUE},
     current_tariff_eur_per_kwh : Tariffs]

Preferences == [priority : Priorities, carbon_conscious : BOOLEAN]

Trip(distance_km, t, tz) ==
    [distance_km |-> distance_km, departure_time |-> [t |-> t, tz |-> tz]]

PlannerCalls(t) ==
    {[fn |-> "calculate_charging_plan", vehicle |-> v,
      trip |-> Trip(d, t + dep[1], dep[2]), charger |-> c,
      driver_preferences |-> p, forecasted_demand |-> f[1],
      site_capacity |-> f[2], bbc_claims |-> b] :
        v \in Vehicles, d \in Distances, dep \in Departures, c \in Chargers,
        p \in Preferences, f \in Forecasts, b \in BbcClaims}

\* planned_cost in 0.001 EUR, energies in 1e-5 kWh, discount in percent
PlannedCosts == {0, 1349, 13493, 13497}
Energies == {0, 1000000, 3855000}
Discounts == {0, 10, 15}

CostCalls ==
    [fn : {"calculate_actual_cost"}, planned_cost : PlannedCosts,
     energy_delivered_kwh : Energies \ {0}, planned_energy_kwh : Energies,
     discount_percent : Discounts]

NoCall == [fn |-> "none"]
NoRequest == [op |-> "none"]
NoResponse == [op |-> "none"]

\* DemandForecaster.__init__: no model, an unfitted LabelEncoder, the default
\* feature columns.  A model or an encoder that was fitted carries the number
\* of the training run that fitted it.  pc is where a train call on the
\* instance is: "idle" (none running), "fitted" (lines 151-205 done),
\* "dumping" (joblib.dump has opened the file).
FEATURE_COLS ==
    <<"hour_of_day", "day_of_week", "is_weekend", "is_holiday", "temperature",
      "site_encoded", "historical_avg_kwh", "historical_session_count">>
DemandForecaster ==
    [model |-> None, site_encoder |-> None, feature_cols |-> FEATURE_COLS,
     pc |-> "idle"]

\* an empty table demand_forecasts
NoForecasts == [id \in {} |-> None]

\* the forecasting engine before anything was trained, generated or forecast
ForecastingIdle ==
    /\ history = 0
    /\ artifactRun = 0
    /\ forecaster = DemandForecaster
    /\ forecasts = NoForecasts
    /\ forecastCalls = 0

PlannerInit ==
    /\ now \in Instants
    /\ call \in PlannerCalls(now) \cup CostCalls
    /\ ret = None
    /\ ret2 = None
    /\ sessions = << >>
    /\ inflight = {}
    /\ artifact = "missing"
    /\ lastReq = NoRequest
    /\ lastResp = NoResponse
    /\ ForecastingIdle

CallChargingPlan ==
    /\ ret = None
    /\ call.fn = "calculate_charging_plan"
    /\ ret' = Some(calculate_charging_plan(call.vehicle, call.trip, call.charger,
                       call.driver_preferences, call.forecasted_demand,
                       call.site_capacity, call.bbc_claims, now))
    /\ UNCHANGED <<now, sessions, inflight, artifact, lastReq, lastResp, call, ret2, fvars>>

CallActualCost ==
    /\ ret = None
    /\ call.fn = "calculate_actual_cost"
    /\ ret' = Some(calculate_actual_cost(call.planned_cost, call.energy_delivered_kwh,
                       call.planned_energy_kwh, call.discount_percent))
    /\ UNCHANGED <<now, sessions, inflight, artifact, lastReq, lastResp, call, ret2, fvars>>

\* the same call of calculate_charging_plan made once more, at the same instant
CallChargingPlanAgain ==
    /\ ret # None
    /\ ret2 = None
    /\ call.fn = "calculate_charging_plan"
    /\ ret2' = Some(calculate_charging_plan(call.vehicle, call.trip, call.charger,
                        call.driver_preferences, call.forecasted_demand,
                        call.site_capacity, call.bbc_claims, now))
    /\ UNCHANGED <<now, sessions, inflight, artifact, lastReq, lastResp, call, ret, fvars>>

PlannerNext == CallChargingPlan \/ CallChargingPlanAgain \/ CallActualCost

PlannerSpec == PlannerInit /\ [][PlannerNext]_vars

(***************************************************************************)
(* backend/services/did_validator.py                                       *)
(* A DID string is carried as its method prefix and the rest:              *)
(* "did:denso:driver:driver001" is [prefix |-> "did:denso:driver:",        *)
(* name |-> "driver001"]; the empty string has both parts empty.           *)
(***************************************************************************)
Did(prefix, name) == [prefix |-> prefix, name |-> name]
\* not did
DidEmpty(did) == did.prefix = "" /\ did.name = ""
\* did.startswith(prefix)
StartsWith(did, prefix) == did.prefix = prefix

\* Check 5 left out
ChargerAvailable_Skipped(charger) == TRUE

\* Check 5: charger.current_availability
ChargerAvailable(charger) == charger.current_availability

\* validate_did_access: (is_valid, message)
validate_did_access(driver, vehicle, charger) ==
    IF DidEmpty(driver.did) \/ ~StartsWith(driver.did, "did:denso:driver:")
    THEN [is_valid |-> FALSE, message |-> "Invalid driver DID format"]
    ELSE IF DidEmpty(vehicle.did) \/ ~StartsWith(vehicle.did, "did:denso:vehicle:")
    THEN [is_valid |-> FALSE, message |-> "Invalid vehicle DID format"]
    ELSE IF DidEmpty(charger.did) \/ ~StartsWith(charger.did, "did:denso:charger:")
    THEN [is_valid |-> FALSE, message |-> "Invalid charger DID format"]
    ELSE IF charger.site_id \notin driver.allowed_sites /\ driver.allowed_sites # {}
    THEN [is_valid |-> FALSE, message |-> "Driver not authorized to charge at site"]
    ELSE IF ~ChargerAvailable(charger)
    THEN [is_valid |-> FALSE, message |-> "Charger is currently unavailable"]
    ELSE IF ~(0 <= vehicle.current_soc_percent /\ vehicle.current_soc_percent <= 100000)
    THEN [is_valid |-> FALSE, message |-> "Invalid vehicle state of charge"]
    ELSE IF vehicle.battery_capacity_kwh <= 0
    THEN [is_valid |-> FALSE, message |-> "Invalid battery capacity"]
    ELSE [is_valid |-> TRUE, message |-> "Access granted - all DID credentials verified"]

(***************************************************************************)
(* The database and the forecaster, as backend/routers/sessions.py sees    *)
(* them.  Tables chargers and sites hold what the demo data generator      *)
(* wrote (two of its sites); table charging_sessions is the variable       *)
(* sessions, a row's id its position.                                      *)
(***************************************************************************)
\* db.query(Charger).filter(Charger.did == did).first(): the row, or None
DbCharger(did) ==
    IF did = Did("did:denso:charger:", "site_hq_chr01")
    THEN Some([did |-> did, site_id |-> "site_hq"])
    ELSE IF did = Did("did:denso:charger:", "site_mall_chr01")
    THEN Some([did |-> did, site_id |-> "site_mall"])
    ELSE None

\* db.query(Site).filter(Site.id == site_id).first().total_capacity_kw
DbSiteCapacity(site_id) ==
    CASE site_id = "site_hq"   -> Some(600)
      [] site_id = "site_mall" -> Some(400)
      [] OTHER                 -> None

\* What Step 3 of start_session can end with: load_model() returns False (no
\* file, or a file that does not load), predict raises, or predict returns
\* forecasts whose first predicted_total_kwh is kwh.
ForecastedKwh == {500}
ForecastOutcomes ==
    IF artifact = "ok"
    THEN {[kind |-> "exception", kwh |-> 0]}
         \cup {[kind |-> "forecast", kwh |-> k] : k \in ForecastedKwh}
    ELSE {[kind |-> "no_model", kwh |-> 0]}

\* forecasted_demand after the try block
ForecastedDemand(outcome) ==
    IF outcome.kind = "forecast" THEN Some(outcome.kwh) ELSE None

\* discount_percent left at 0.0
DiscountPercent_Unset(offers) == 0

\* Step 5: discount_percent, the value of the first discount offer
DiscountPercent(offers) ==
    IF \E i \in DOMAIN offers : offers[i].type = "discount"
    THEN offers[CHOOSE i \in DOMAIN offers :
                   /\ offers[i].type = "discount"
                   /\ \A j \in DOMAIN offers : offers[j].type = "discount" => i <= j].value
    ELSE 0

\* Step 5: incentive_text, the reason of the first discount offer, else the
\* offers joined by "; ", else None
IncentiveText(offers) ==
    IF offers = << >> THEN None
    ELSE IF \E i \in DOMAIN offers : offers[i].type = "discount"
    THEN Some(<<offers[CHOOSE i \in DOMAIN offers :
                   /\ offers[i].type = "discount"
                   /\ \A j \in DOMAIN offers : offers[j].type = "discount" => i <= j].reason>>)
    ELSE Some([i \in DOMAIN offers |-> <<offers[i].type, offers[i].reason>>])

\* the ChargingSession row start_session adds
NewSession(session_id, request, db_charger, plan, t) ==
    LET offers == plan.incentive_offers
    IN  [id |-> session_id,
         driver_did |-> request.driver.did,
         vehicle_did |-> request.vehicle.did,
         charger_did |-> request.charger.did,
         site_id |-> db_charger.site_id,
         start_time |-> t,
         end_time |-> None,
         departure_time |-> request.trip.departure_time,
         planned_finish_time |-> plan.planned_finish_time,
         battery_capacity_kwh |-> request.vehicle.battery_capacity_kwh,
         initial_soc_percent |-> request.vehicle.current_soc_percent,
         target_soc_percent |-> plan.target_soc_percent,
         final_soc_percent |-> None,
         energy_delivered_kwh |-> None,
         planned_energy_kwh |-> plan.extra_energy_needed_kwh,
         trip_distance_km |-> request.trip.distance_km,
         consumption_wh_per_km |-> request.vehicle.nominal_consumption_wh_per_km,
         max_charge_power_kw |-> request.vehicle.max_charge_power_kw,
         effective_charge_power_kw |-> plan.effective_charge_power_kw,
         planned_duration_hours |-> plan.planned_duration_hours,
         tariff_eur_per_kwh |-> request.charger.current_tariff_eur_per_kwh,
         planned_cost_eur |-> plan.planned_cost_eur,
         final_cost_eur |-> None,
         discount_applied_percent |-> DiscountPercent(offers),
         status |-> "active",
         is_feasible |-> plan.is_feasible,
         feasibility_warning |-> plan.feasibility_warning,
         plan_version |-> "v1.0",
         plan_type |-> plan.plan_type,
         incentive_offered |-> IncentiveText(offers),
         driver_priority |-> request.driver.preferences.priority,
         carbon_conscious |-> request.driver.preferences.carbon_conscious]

\* What a handler answered: the HTTP status and detail, and for start_session
\* which of its steps ran (planner_called, with which forecasted_demand) and
\* the plan it returned.
Response(op, status, detail, planner_called, forecasted_demand, session_id, body) ==
    [op |-> op, status |-> status, detail |-> detail,
     planner_called |-> planner_called, forecasted_demand |-> forecasted_demand,
     session_id |-> session_id, body |-> body]

\* POST /api/v1/sessions/start
start_session(request, outcome) ==
    LET access == validate_did_access(request.driver, request.vehicle, request.charger)
        charger == DbCharger(request.charger.did)
        site_capacity == DbSiteCapacity(charger[1].site_id)
        forecasted_demand == ForecastedDemand(outcome)
        plan == calculate_charging_plan(request.vehicle, request.trip, request.charger,
                    request.driver.preferences, forecasted_demand, site_capacity,
                    None, now)
        session_id == Len(sessions) + 1
    IN  /\ lastReq' = [op |-> "start_session", request |-> request, forecast |-> outcome]
        /\ IF ~access.is_valid
           THEN /\ lastResp' = Response("start_session", 403, access.message,
                                        FALSE, None, 0, None)
                /\ UNCHANGED sessions
           ELSE IF charger = None
           THEN /\ lastResp' = Response("start_session", 404,
                                        "Charger not found in database",
                                        FALSE, None, 0, None)
                /\ UNCHANGED sessions
           ELSE IF plan.exc # "none"
           THEN /\ lastResp' = Response("start_session", 500, plan.exc,
                                        TRUE, forecasted_demand, 0, None)
                /\ UNCHANGED sessions
           ELSE /\ sessions' = Append(sessions,
                                   NewSession(session_id, request, charger[1], plan, now))
                /\ lastResp' = Response("start_session", 200,
                                        "Session started successfully",
                                        TRUE, forecasted_demand, session_id, Some(plan))
        /\ UNCHANGED <<now, inflight, artifact, call, ret, ret2, fvars>>

\* the row completed with final_cost_eur left unset
CompletedSession_CostUnset(session, request, actual_cost, t) ==
    [session EXCEPT !.end_time = Some(t),
                    !.energy_delivered_kwh = Some(request.energy_delivered_kwh),
                    !.final_soc_percent = request.final_soc_percent,
                    !.status = "completed"]

\* complete_session, lines 211-224: the row with the actual values
CompletedSession(session, request, actual_cost, t) ==
    [session EXCEPT !.end_time = Some(t),
                    !.energy_delivered_kwh = Some(request.energy_delivered_kwh),
                    !.final_soc_percent = request.final_soc_percent,
                    !.status = "completed",
                    !.final_cost_eur = Some(actual_cost)]

\* POST /api/v1/sessions/{session_id}/complete, with no other request running
\* between its query and its commit
complete_session(session_id, request) ==
    LET session == sessions[session_id]
        actual_cost == calculate_actual_cost(session.planned_cost_eur * 10,
                           request.energy_delivered_kwh, session.planned_energy_kwh,
                           session.discount_applied_percent)
        \* round(duration_hours, 3), in 0.001 h
        duration_hours == RoundHalfEven((now - session.start_time) * 1000, TicksPerHour)
    IN  /\ lastReq' = [op |-> "complete_session", session_id |-> session_id,
                       request |-> request]
        /\ IF session_id \notin DOMAIN sessions
           THEN /\ lastResp' = Response("complete_session", 404, "Session not found",
                                        FALSE, None, session_id, None)
                /\ UNCHANGED sessions
           ELSE IF session.status = "completed"
           THEN /\ lastResp' = Response("complete_session", 400,
                                        "Session already completed",
                                        FALSE, None, session_id, None)
                /\ UNCHANGED sessions
           ELSE /\ sessions' = [sessions EXCEPT ![session_id] =
                                   CompletedSession(session, request, actual_cost, now)]
                /\ lastResp' = Response("complete_session", 200,
                                        "Session completed successfully",
                                        FALSE, None, session_id,
                                        Some([final_cost_eur |-> actual_cost,
                                              energy_delivered_kwh |->
                                                  request.energy_delivered_kwh,
                                              duration_hours |-> duration_hours]))
        /\ UNCHANGED <<now, inflight, artifact, call, ret, ret2, fvars>>

(***************************************************************************)
(* Requests to the session endpoints.                                      *)
(***************************************************************************)
GoodDriver == Did("did:denso:driver:", "driver001")
GoodVehicle == Did("did:denso:vehicle:", "vehicle001")
GoodCharger == Did("did:denso:charger:", "site_hq_chr01")
RequestPreferences == {[priority |-> "cost", carbon_conscious |-> TRUE]}
\* <<distance_km, departure_time - now in ticks, tzinfo>>
RequestTrips == {<<120, 3 * TicksPerHour, "naive">>, <<300, 3 * TicksPerHour, "naive">>,
                 <<300, 0 - 1, "naive">>, <<120, 3 * TicksPerHour, "UTC">>}

StartRequest(driver_did, allowed_sites, preferences, vehicle_did, charger_did, availability, trip) ==
    [driver |-> [did |-> driver_did, preferences |-> preferences,
                 allowed_sites |-> allowed_sites],
     vehicle |-> [did |-> vehicle_did, battery_capacity_kwh |-> 75,
                  nominal_consumption_wh_per_km |-> 180,
                  max_charge_power_kw |-> 150000, current_soc_percent |-> 35000],
     charger |-> [did |-> charger_did, site_id |-> "site_hq",
                  max_power_kw |-> 150000, current_availability |-> availability,
                  current_tariff_eur_per_kwh |-> 35],
     trip |-> Trip(trip[1], now + trip[2], trip[3])]

\* <<driver DID, allowed_sites, vehicle DID, charger DID, availability>>: all in
\* order, and one thing wrong at a time (a DID of another method, an empty DID,
\* a vehicle DID for the charger, a charger the database does not hold, another
\* site allowed, no site named, the charger taken)
RequestIdentities ==
    {<<GoodDriver, {"site_hq"}, GoodVehicle, GoodCharger, TRUE>>,
     <<Did("did:web:driver:", "driver001"), {"site_hq"}, GoodVehicle, GoodCharger, TRUE>>,
     <<GoodDriver, {"site_hq"}, Did("", ""), GoodCharger, TRUE>>,
     <<GoodDriver, {"site_hq"}, GoodVehicle,
       Did("did:denso:vehicle:", "site_hq_chr01"), TRUE>>,
     <<GoodDriver, {"site_hq"}, GoodVehicle,
       Did("did:denso:charger:", "site_hq_chr99"), TRUE>>,
     <<GoodDriver, {"site_mall"}, GoodVehicle, GoodCharger, TRUE>>,
     <<GoodDriver, {}, GoodVehicle, GoodCharger, TRUE>>,
     <<GoodDriver, {"site_hq"}, GoodVehicle, GoodCharger, FALSE>>}

StartRequests ==
    {StartRequest(i[1], i[2], p, i[3], i[4], i[5], t) :
        i \in RequestIdentities, p \in RequestPreferences, t \in RequestTrips}

CompleteRequests ==
    {[energy_delivered_kwh |-> 1000000, final_soc_percent |-> None],
     [energy_delivered_kwh |-> 3855000, final_soc_percent |-> Some(86400)]}

(***************************************************************************)
(* The service.                                                            *)
(***************************************************************************)
Init ==
    /\ now = 10 * TicksPerHour - 1
    /\ sessions = << >>
    /\ inflight = {}
    /\ artifact \in {"missing", "corrupt", "ok"}
    /\ lastReq = NoRequest
    /\ lastResp = NoResponse
    /\ call = NoCall
    /\ ret = None
    /\ ret2 = None
    /\ ForecastingIdle

StartSession ==
    /\ Len(sessions) < MaxSessions
    /\ \E request \in StartRequests, outcome \in ForecastOutcomes :
           start_session(request, outcome)

CompleteSession ==
    \E session_id \in 1..MaxSessions, request \in CompleteRequests :
        complete_session(session_id, request)

\* time passes, from 09:45 to 10:00
AdvanceClock ==
    /\ now < 10 * TicksPerHour
    /\ now' = now + 1
    /\ UNCHANGED <<sessions, inflight, artifact, lastReq, lastResp, call, ret, ret2, fvars>>

Next == StartSession \/ CompleteSession \/ AdvanceClock

Spec == Init /\ [][Next]_vars

(***************************************************************************)
(* complete_session as the server runs it: each request in a thread of the *)
(* pool with a database session of its own, so that between the query of   *)
(* one request (line 202) and its commit (line 229) other requests run.    *)
(***************************************************************************)
\* db.commit(), line 229: the UPDATE sets the columns whose value the request
\* changed on the row it had read, and leaves the others as the table has them
CommittedRow(current, read, written) ==
    [c \in DOMAIN current |-> IF written[c] # read[c] THEN written[c] ELSE current[c]]

\* complete_session, lines 202-208: the query and the two rejections
CompleteQuery(session_id, request) ==
    LET p == [session_id |-> session_id, request |-> request,
              session |-> sessions[session_id]]
    IN  /\ lastReq' = [op |-> "complete_query", session_id |-> session_id,
                       request |-> request]
        /\ IF session_id \notin DOMAIN sessions
           THEN /\ lastResp' = Response("complete_query", 404, "Session not found",
                                        FALSE, None, session_id, None)
                /\ UNCHANGED inflight
           ELSE IF sessions[session_id].status = "completed"
           THEN /\ lastResp' = Response("complete_query", 400,
                                        "Session already completed",
                                        FALSE, None, session_id, None)
                /\ UNCHANGED inflight
           ELSE /\ Cardinality(inflight) < MaxInflight
                /\ p \notin inflight
                /\ inflight' = inflight \cup {p}
                /\ lastResp' = Response("complete_query", 0, "", FALSE, None,
                                        session_id, None)
        /\ UNCHANGED <<now, sessions, artifact, call, ret, ret2, fvars>>

\* complete_session, lines 211-237: the values set on the row read, the cost,
\* the commit and the answer
CompleteCommit(p) ==
    LET session == p.session
        request == p.request
        actual_cost == calculate_actual_cost(session.planned_cost_eur * 10,
                           request.energy_delivered_kwh, session.planned_energy_kwh,
                           session.discount_applied_percent)
        written == CompletedSession(session, request, actual_cost, now)
        duration_hours == RoundHalfEven((now - session.start_time) * 1000, TicksPerHour)
    IN  /\ sessions' = [sessions EXCEPT ![p.session_id] =
                            CommittedRow(@, session, written)]
        /\ inflight' = inflight \ {p}
        /\ lastReq' = [op |-> "complete_commit", session_id |-> p.session_id,
                       request |-> request]
        /\ lastResp' = Response("complete_commit", 200,
                                "Session completed successfully",
                                FALSE, None, p.session_id,
                                Some([final_cost_eur |-> actual_cost,
                                      energy_delivered_kwh |->
                                          request.energy_delivered_kwh,
                                      duration_hours |-> duration_hours]))
        /\ UNCHANGED <<now, artifact, call, ret, ret2, fvars>>

CompleteSessionQuery ==
    \E session_id \in 1..MaxSessions, request \in CompleteRequests :
        CompleteQuery(session_id, request)

CompleteSessionCommit == \E p \in inflight : CompleteCommit(p)

CompletionNext ==
    \/ StartSession
    \/ CompleteSessionQuery
    \/ CompleteSessionCommit
    \/ AdvanceClock

CompletionSpec == Init /\ [][CompletionNext]_vars

(***************************************************************************)
(* backend/services/forecasting.py                                         *)
(* Predicted energy and its standard deviation over the trees are in       *)
(* 0.001 kWh; the fields of a forecast, rounded to 2 decimals, in          *)
(* 0.01 kWh.  What the random forest computes is not modelled: a fitted    *)
(* model is known by the run that fitted it, and its estimates for a       *)
(* request are drawn from Estimates.                                       *)
(***************************************************************************)
\* train, lines 152-155: the completed sessions with delivered energy, counted
UsableRecords ==
    history + Cardinality({i \in DOMAIN sessions :
                              /\ sessions[i].status = "completed"
                              /\ sessions[i].energy_delivered_kwh # None})

\* the length check left out
InsufficientData_Unchecked(n) == FALSE

\* train, line 157: len(sessions) < 100
InsufficientData(n) == n < 100

\* the file is taken for loadable whenever it exists
Loadable_IfExists(file) == file # "missing"

\* load_model, lines 229-240: the file exists and joblib.load reads it whole
Loadable(file) == file = "ok"

\* load_model: (returned value, the instance afterwards)
load_model(self) ==
    IF Loadable(artifact)
    THEN [ok |-> TRUE,
          self |-> [self EXCEPT !.model = Some(artifactRun),
                                !.site_encoder = Some(artifactRun),
                                !.feature_cols = FEATURE_COLS]]
    ELSE [ok |-> FALSE, self |-> self]

\* round(x) for int(x)
IntOf_Rounded(n, d) == RoundHalfEven(n, d)

\* int(x) for x = n/d: truncation towards zero
IntOf(n, d) == IF n >= 0 THEN n \div d ELSE 0 - ((0 - n) \div d)

\* the lower bound not clamped
ClampAtZero_Missing(x) == x

\* max(0, x)
ClampAtZero(x) == Max(0, x)

\* predict, lines 321-332: one entry of results
ForecastPoint(time_slot, pred, std) ==
    [time_slot |-> time_slot,
     predicted_total_kwh |-> Max(0, RoundHalfEven(pred, 10)),
     predicted_active_sessions |-> Max(1, IntOf(pred, 30000)),
     confidence_lower |-> ClampAtZero(RoundHalfEven(pred * 100 - 196 * std, 1000)),
     confidence_upper |-> RoundHalfEven(pred * 100 + 196 * std, 1000)]

\* predict: the exception or the results, and the instance afterwards.
\* estimates[i] is <<mean, standard deviation>> over the trees for hour i.
predict(self, site_id, target_time, hours_ahead, estimates) ==
    LET loaded == IF self.model = None
                  THEN load_model(self)
                  ELSE [ok |-> TRUE, self |-> self]
    IN  IF ~loaded.ok
        THEN [exc |-> "ValueError", results |-> << >>, self |-> loaded.self]
        ELSE [exc |-> "none",
              results |-> [i \in 1..hours_ahead |->
                              ForecastPoint(target_time + (i - 1) * TicksPerHour,
                                            estimates[i][1], estimates[i][2])],
              self |-> loaded.self]

\* timedelta(days=7), in ticks
SevenDays == 7 * 24 * TicksPerHour

\* predict, lines 270-276: the rows of the site with delivered energy that
\* started in [lookback, target_time)
QuerySessions(stored, target_time) ==
    LET lookback == target_time - SevenDays
    IN  SelectSeq(stored, LAMBDA s : /\ s.start_time >= lookback
                                     /\ s.start_time < target_time
                                     /\ s.energy_delivered_kwh # None)

\* predict, lines 278-298: the frame of the rows found, or of one dummy row
\* that starts at lookback with no energy
SessionsFrame(rows, site_id, target_time) ==
    IF rows = << >>
    THEN << [id |-> "dummy", site_id |-> site_id,
             start_time |-> target_time - SevenDays, energy_delivered_kwh |-> 0] >>
    ELSE [i \in DOMAIN rows |->
             [id |-> rows[i].id, site_id |-> site_id,
              start_time |-> rows[i].start_time,
              energy_delivered_kwh |-> rows[i].energy_delivered_kwh[1]]]

\* recent['energy_delivered_kwh'].sum()
RECURSIVE SumEnergy(_)
SumEnergy(rows) ==
    IF rows = << >> THEN 0
    ELSE Head(rows).energy_delivered_kwh + SumEnergy(Tail(rows))

\* prepare_features, lines 60-63: the rows of the last 7 days before an hour
Recent(site_sessions, target_time) ==
    SelectSeq(site_sessions, LAMBDA s : /\ s.start_time >= target_time - SevenDays
                                        /\ s.start_time < target_time)

\* prepare_features, lines 51-80, for a frame that holds one site: one row for
\* each target hour; the rolling statistics are exact fractions
prepare_features(sessions_df, target_hours) ==
    IF sessions_df = << >>
    THEN << >>
    ELSE [i \in DOMAIN target_hours |->
             LET target_time == target_hours[i]
                 recent == Recent(sessions_df, target_time)
             IN  [time_slot |-> target_time,
                  site_id |-> sessions_df[1].site_id,
                  hour_of_day |-> HourOf(target_time),
                  historical_avg_kwh |-> IF Len(recent) > 0
                                         THEN Frac(SumEnergy(recent), Len(recent))
                                         ELSE <<0, 1>>,
                  historical_session_count |-> Frac(Len(recent), 7)]]

\* predict, lines 266-301: the feature rows the model is asked about
predict_features(site_id, target_time, hours_ahead, stored) ==
    LET target_hours == [i \in 1..hours_ahead |-> target_time + (i - 1) * TicksPerHour]
        rows == QuerySessions(stored, target_time)
    IN  prepare_features(SessionsFrame(rows, site_id, target_time), target_hours)

\* one decimal digit
Digit(d) ==
    CASE d = 0 -> "0" [] d = 1 -> "1" [] d = 2 -> "2" [] d = 3 -> "3" [] d = 4 -> "4"
      [] d = 5 -> "5" [] d = 6 -> "6" [] d = 7 -> "7" [] d = 8 -> "8" [] d = 9 -> "9"
\* "%02d"
Pad2(n) == Digit((n \div 10) % 10) \o Digit(n % 10)

\* the key formed from the whole instant, the tick within the hour included
Strftime_WithMinutes(t) ==
    "202401" \o Pad2(1 + t \div (24 * TicksPerHour)) \o Pad2(HourOf(t))
        \o Pad2(t % TicksPerHour)

\* time_slot.strftime('%Y%m%d%H'); day 0 of the clock is 2024-01-01
Strftime(t) == "202401" \o Pad2(1 + t \div (24 * TicksPerHour)) \o Pad2(HourOf(t))

\* save_forecasts_to_db, line 347
ForecastId(site_id, forecast) == site_id \o "_" \o Strftime(forecast.time_slot)

\* db.merge(DemandForecast(...)): the row with this primary key is updated in
\* the columns the constructor set, or inserted with created_at = utcnow()
Merge(table, site_id, forecast) ==
    LET forecast_id == ForecastId(site_id, forecast)
        row == [id |-> forecast_id,
                site_id |-> site_id,
                time_slot |-> forecast.time_slot,
                predicted_total_kwh |-> forecast.predicted_total_kwh,
                predicted_active_sessions |-> forecast.predicted_active_sessions,
                confidence_lower |-> forecast.confidence_lower,
                confidence_upper |-> forecast.confidence_upper,
                model_version |-> "v1.0",
                created_at |-> IF forecast_id \in DOMAIN table
                               THEN table[forecast_id].created_at
                               ELSE now]
    IN  [id \in DOMAIN table \cup {forecast_id} |->
            IF id = forecast_id THEN row ELSE table[id]]

\* save_forecasts_to_db: the table after the loop and the commit
RECURSIVE save_forecasts_to_db(_, _, _)
save_forecasts_to_db(table, forecasts_list, site_id) ==
    IF forecasts_list = << >>
    THEN table
    ELSE save_forecasts_to_db(Merge(table, site_id, Head(forecasts_list)),
                              Tail(forecasts_list), site_id)

\* <<mean, standard deviation>> over the trees, in 0.001 kWh.  The targets the
\* trees average are sums of delivered energy, so a mean is never negative.
Estimates == {<<0, 0>>, <<12346, 10000>>, <<50000, 0>>, <<500000, 25510>>}
ForecastSites == {"site_hq", "site_mall"}
\* the site predict is called for directly
PredictSites == {"site_hq"}
HoursAhead == {1, 2}
EstimatesFor(hours_ahead) == [1..hours_ahead -> Estimates]

\* what the table of sessions may hold for the site when a forecast is asked
\* for shortly before 10:00 of day 0: nothing; one session that started exactly
\* 7 days before 09:45; one of the last hour, one older than 7 days and one
\* still active
StoredSessions ==
    { << >>,
      << [id |-> "s1", start_time |-> (10 * TicksPerHour - 1) - SevenDays,
          energy_delivered_kwh |-> Some(1000000)] >>,
      << [id |-> "s1", start_time |-> 9 * TicksPerHour,
          energy_delivered_kwh |-> Some(3855000)],
         [id |-> "s2", start_time |-> 0 - SevenDays - TicksPerHour,
          energy_delivered_kwh |-> Some(1000000)],
         [id |-> "s3", start_time |-> 9 * TicksPerHour + 1,
          energy_delivered_kwh |-> None] >> }

(***************************************************************************)
(* The forecasting engine: training, publishing the artifact, loading it   *)
(* and predicting.  A train call runs in three steps, so that what runs    *)
(* between them sees the file as it then is: fitting (lines 151-205),      *)
(* joblib.dump opening the file for writing (line 209), joblib.dump        *)
(* having written it (line 213).  fresh says that the call is made on a    *)
(* new DemandForecaster(), as the routers make it (forecasts.py:25, 56;    *)
(* sessions.py:65), and not on the instance at hand (auto_demo.py:49-50,   *)
(* 146).                                                                   *)
(***************************************************************************)
\* a session that completes with its delivered energy
RecordCompleted ==
    /\ history < MaxRecords
    /\ history' = history + 1
    /\ lastReq' = [op |-> "record_completed"]
    /\ lastResp' = [op |-> "record_completed"]
    /\ UNCHANGED <<now, sessions, inflight, artifact, call, ret, ret2, artifactRun, forecaster,
                   forecasts, forecastCalls>>

\* train up to the evaluation: the ValueError of line 158, or the encoder and
\* the model of run artifactRun + 1 fitted in memory
TrainBegin(fresh) ==
    /\ forecaster.pc = "idle"
    /\ artifactRun < MaxRuns
    /\ LET self == IF fresh THEN DemandForecaster ELSE forecaster
       IN  /\ lastReq' = [op |-> "train", fresh |-> fresh, self |-> self,
                          usable |-> UsableRecords]
           /\ IF InsufficientData(UsableRecords)
              THEN /\ forecaster' = self
                   /\ lastResp' = [op |-> "train", exc |-> "ValueError",
                                   status |-> 400]
              ELSE /\ forecaster' = [self EXCEPT !.site_encoder = Some(artifactRun + 1),
                                                 !.model = Some(artifactRun + 1),
                                                 !.pc = "fitted"]
                   /\ lastResp' = [op |-> "train", exc |-> "none", status |-> 0]
    /\ UNCHANGED <<now, sessions, inflight, artifact, call, ret, ret2, history, artifactRun,
                   forecasts, forecastCalls>>

\* joblib.dump opens models/demand_forecast.pkl for writing: what it held is gone
TrainDumpOpen ==
    /\ forecaster.pc = "fitted"
    /\ forecaster' = [forecaster EXCEPT !.pc = "dumping"]
    /\ artifact' = "partial"
    /\ lastReq' = [op |-> "train_dump_open", replaced |-> artifact]
    /\ lastResp' = [op |-> "train_dump_open"]
    /\ UNCHANGED <<now, sessions, inflight, call, ret, ret2, history, artifactRun, forecasts,
                   forecastCalls>>

\* joblib.dump has written the file; train returns its metrics
TrainDumpClose ==
    /\ forecaster.pc = "dumping"
    /\ forecaster' = [forecaster EXCEPT !.pc = "idle"]
    /\ artifact' = "ok"
    /\ artifactRun' = forecaster.model[1]
    /\ lastReq' = [op |-> "train_dump_close"]
    /\ lastResp' = [op |-> "train_dump_close", exc |-> "none", status |-> 200]
    /\ UNCHANGED <<now, sessions, inflight, call, ret, ret2, history, forecasts, forecastCalls>>

\* DemandForecaster().load_model()
LoadModel ==
    LET loaded == load_model(DemandForecaster)
    IN  /\ lastReq' = [op |-> "load_model", file |-> artifact, run |-> artifactRun,
                       training |-> forecaster.pc]
        /\ lastResp' = [op |-> "load_model", ok |-> loaded.ok, self |-> loaded.self]
        /\ UNCHANGED <<now, sessions, inflight, artifact, call, ret, ret2, fvars>>

\* predict, on a new instance at any time, or on the instance at hand when no
\* train call is running on it
Predict(fresh, site_id, hours_ahead, estimates, stored) ==
    /\ fresh \/ forecaster.pc = "idle"
    /\ LET self == IF fresh THEN DemandForecaster ELSE forecaster
           r == predict(self, site_id, now, hours_ahead, estimates)
       IN  /\ lastReq' = [op |-> "predict", fresh |-> fresh, self |-> self,
                          site_id |-> site_id, hours_ahead |-> hours_ahead,
                          estimates |-> estimates, file |-> artifact,
                          run |-> artifactRun, training |-> forecaster.pc,
                          stored |-> stored, target_time |-> now]
           /\ lastResp' = [op |-> "predict", exc |-> r.exc, results |-> r.results,
                           self |-> r.self,
                           features |-> IF r.exc = "none"
                                        THEN predict_features(site_id, now,
                                                              hours_ahead, stored)
                                        ELSE << >>]
           /\ forecaster' = IF fresh THEN forecaster ELSE r.self
    /\ UNCHANGED <<now, sessions, inflight, artifact, call, ret, ret2, history, artifactRun,
                   forecasts, forecastCalls>>

ForecasterInit ==
    /\ now = 10 * TicksPerHour - 1
    /\ sessions = << >>
    /\ inflight = {}
    /\ artifact \in {"missing", "corrupt", "ok"}
    /\ lastReq = NoRequest
    /\ lastResp = NoResponse
    /\ call = NoCall
    /\ ret = None
    /\ ret2 = None
    /\ history = MaxRecords - 2
    /\ artifactRun = 0
    /\ forecaster = DemandForecaster
    /\ forecasts = NoForecasts
    /\ forecastCalls = 0

ForecasterNext ==
    \/ RecordCompleted
    \/ \E fresh \in BOOLEAN : TrainBegin(fresh)
    \/ TrainDumpOpen
    \/ TrainDumpClose
    \/ LoadModel
    \/ \E fresh \in BOOLEAN, site_id \in PredictSites, hours_ahead \in HoursAhead :
           \E estimates \in EstimatesFor(hours_ahead), stored \in StoredSessions :
               Predict(fresh, site_id, hours_ahead, estimates, stored)

ForecasterSpec == ForecasterInit /\ [][ForecasterNext]_vars

(***************************************************************************)
(* backend/routers/forecasts.py: GET /api/v1/forecasts/site/{site_id}, and *)
(* the table demand_forecasts it writes.                                   *)
(***************************************************************************)
\* the estimates a forecast request may meet
RequestEstimates == {<<12346, 10000>>, <<500000, 25510>>}

\* get_site_forecast: 503 when the model does not load, else the forecasts,
\* saved to the table and returned
get_site_forecast(site_id, hours_ahead, estimates) ==
    LET loaded == load_model(DemandForecaster)
        r == predict(loaded.self, site_id, now, Min(hours_ahead, 48), estimates)
    IN  /\ lastReq' = [op |-> "get_site_forecast", site_id |-> site_id,
                       hours_ahead |-> hours_ahead, estimates |-> estimates,
                       target_time |-> now]
        /\ IF ~loaded.ok
           THEN /\ lastResp' = [op |-> "get_site_forecast", status |-> 503,
                                forecasts |-> << >>]
                /\ UNCHANGED forecasts
           ELSE IF r.exc # "none"
           THEN /\ lastResp' = [op |-> "get_site_forecast", status |-> 500,
                                forecasts |-> << >>]
                /\ UNCHANGED forecasts
           ELSE /\ forecasts' = save_forecasts_to_db(forecasts, r.results, site_id)
                /\ lastResp' = [op |-> "get_site_forecast", status |-> 200,
                                forecasts |-> r.results]
        /\ forecastCalls' = forecastCalls + 1
        /\ UNCHANGED <<now, sessions, inflight, artifact, call, ret, ret2, history, artifactRun,
                       forecaster>>

GetSiteForecast ==
    /\ forecastCalls < MaxForecastCalls
    /\ \E site_id \in ForecastSites, hours_ahead \in HoursAhead :
           \E estimates \in [1..hours_ahead -> RequestEstimates] :
               get_site_forecast(site_id, hours_ahead, estimates)

\* time passes, from half an hour before 10:00 to 10:00
ForecastClock ==
    /\ now < 10 * TicksPerHour
    /\ now' = now + 1
    /\ UNCHANGED <<sessions, inflight, artifact, lastReq, lastResp, call, ret, ret2, fvars>>

ForecastInit ==
    /\ now = 10 * TicksPerHour - 2
    /\ sessions = << >>
    /\ inflight = {}
    /\ artifact \in {"missing", "ok"}
    /\ lastReq = NoRequest
    /\ lastResp = NoResponse
    /\ call = NoCall
    /\ ret = None
    /\ ret2 = None
    /\ ForecastingIdle

ForecastNext == GetSiteForecast \/ ForecastClock

ForecastSpec == ForecastInit /\ [][ForecastNext]_vars


(***************************************************************************)
(* Properties of calculate_charging_plan and calculate_actual_cost,        *)
(* checked under PlannerSpec.                                              *)
(***************************************************************************)
\* a call of calculate_charging_plan has ended
PlanCallEnded == call.fn = "calculate_charging_plan" /\ ret # None
\* ... with a ChargingPlan
PlanReturned == PlanCallEnded /\ ret[1].exc = "none"
CostCallEnded == call.fn = "calculate_actual_cost" /\ ret # None

\* min(charger, vehicle, c_rate(status) * capacity) of the call's arguments, in W
ArgPowerLimit ==
    Min(Min(call.charger.max_power_kw, call.vehicle.max_charge_power_kw),
        LIFECYCLE_CRATE_LIMITS(LifecycleStatus(call.bbc_claims))
            * call.vehicle.battery_capacity_kwh * 100)
\* needed and current energy of the call's arguments, in 1e-5 kWh
ArgNeeded == call.trip.distance_km * call.vehicle.nominal_consumption_wh_per_km * 120
ArgCurrent == call.vehicle.battery_capacity_kwh * call.vehicle.current_soc_percent
\* departure_time - now, in ticks
ArgSlack == call.trip.departure_time.t - now
\* forecasted_demand / site_capacity > 0.8, both supplied
ArgPeak == /\ call.forecasted_demand # None
           /\ call.site_capacity # None
           /\ call.forecasted_demand[1] * 10 > 8 * call.site_capacity[1]
\* the charging duration of the returned plan, exact, as <<n, d>> hours
PlanChargeTime ==
    IF ret[1].extra_energy_needed_kwh > 0
    THEN Frac(ret[1].extra_energy_needed_kwh, ArgPowerLimit * 85)
    ELSE <<0, 1>>
HasOffer(plan, type, value) ==
    \E i \in DOMAIN plan.incentive_offers :
        plan.incentive_offers[i].type = type /\ plan.incentive_offers[i].value = value

\* C1 (as stated): in every returned plan effective_charge_power_kw is at most
\* min(charger.max_power_kw, vehicle.max_charge_power_kw, c_rate * capacity).
C1_PowerWithinLimit ==
    PlanReturned => ret[1].effective_charge_power_kw * 10 <= ArgPowerLimit

\* C1 (amended): effective_charge_power_kw, which is rounded to 2 decimals,
\* exceeds the three-way minimum by at most 0.005 kW, and does not exceed it at
\* all when the minimum is 0.04 kW or more.
C1_PowerWithinLimitRounded ==
    PlanReturned =>
        /\ ret[1].effective_charge_power_kw * 1000 <= ArgPowerLimit * 100 + 500
        /\ ArgPowerLimit >= 40 => ret[1].effective_charge_power_kw * 10 <= ArgPowerLimit

\* the lifecycle limit is the binding one of the three
C1_Witness ==
    /\ PlanReturned
    /\ call.bbc_claims = Some("END_OF_LIFE")
    /\ ArgPowerLimit < call.charger.max_power_kw
    /\ ArgPowerLimit < call.vehicle.max_charge_power_kw
    /\ ret[1].effective_charge_power_kw > 0

\* the same departure instant, given as a naive datetime
NaiveTrip == Trip(call.trip.distance_km, call.trip.departure_time.t, "naive")
\* charging cannot finish before departure
ArgInfeasible ==
    ~calculate_charging_plan(call.vehicle, NaiveTrip, call.charger,
         call.driver_preferences, call.forecasted_demand, call.site_capacity,
         call.bbc_claims, now).is_feasible

\* C2: a call never ends with an exception; when charging cannot finish before
\* departure it returns a plan with is_feasible false and a warning, and the
\* warning is absent exactly when is_feasible is true.
C2_InfeasibleIsNotAnError ==
    PlanCallEnded =>
        /\ ArgInfeasible => /\ ret[1].exc = "none"
                            /\ ~ret[1].is_feasible
                            /\ ret[1].feasibility_warning # None
        /\ ret[1].exc = "none" =>
               (ret[1].feasibility_warning = None <=> ret[1].is_feasible)

\* C2 holds of every call whose departure_time is a naive datetime
C2_InfeasibleIsNotAnErrorNaive ==
    (PlanCallEnded /\ call.trip.departure_time.tz = "naive") =>
        /\ ret[1].exc = "none"
        /\ ArgInfeasible => (~ret[1].is_feasible /\ ret[1].feasibility_warning # None)
        /\ ret[1].feasibility_warning = None <=> ret[1].is_feasible

\* C3: is_feasible iff planned_finish_time <= departure_time, equality included.
C3_FeasibleIffFinishByDeparture ==
    PlanReturned =>
        (ret[1].is_feasible <=>
             ret[1].planned_finish_time <= call.trip.departure_time.t)

\* charging takes time and ends exactly at departure
C3_Witness ==
    /\ PlanReturned
    /\ ret[1].planned_duration_hours > 0
    /\ ret[1].planned_finish_time = call.trip.departure_time.t
    /\ ret[1].is_feasible

\* C4: 0 <= target_soc_percent <= 100.
C4_TargetSocInRange ==
    PlanReturned =>
        0 <= ret[1].target_soc_percent /\ ret[1].target_soc_percent <= 10000

\* the trip needs more than the battery holds, the target is capped
C4_Witness ==
    /\ PlanReturned
    /\ ArgNeeded > 100000 * call.vehicle.battery_capacity_kwh
    /\ ret[1].target_soc_percent = 10000

\* C5 (as stated): with current energy >= needed energy, extra energy is 0,
\* target_soc_percent equals current_soc_percent, duration and cost are 0.
C5_NoForcedOvercharge ==
    (PlanReturned /\ ArgCurrent >= ArgNeeded) =>
        /\ ret[1].extra_energy_needed_kwh = 0
        /\ ret[1].target_soc_percent * 10 = call.vehicle.current_soc_percent
        /\ ret[1].planned_duration_hours = 0
        /\ ret[1].planned_cost_eur = 0

\* C5 (amended): ... target_soc_percent equals current_soc_percent rounded to
\* 2 decimals ...
C5_NoForcedOverchargeRounded ==
    (PlanReturned /\ ArgCurrent >= ArgNeeded) =>
        /\ ret[1].extra_energy_needed_kwh = 0
        /\ ret[1].target_soc_percent
               = RoundHalfEvenNat(call.vehicle.current_soc_percent, 10)
        /\ ret[1].planned_duration_hours = 0
        /\ ret[1].planned_cost_eur = 0

\* a sufficient battery whose SoC has a third decimal
C5_Witness ==
    /\ PlanReturned
    /\ ArgCurrent >= ArgNeeded
    /\ call.vehicle.current_soc_percent % 10 # 0
    /\ ret[1].extra_energy_needed_kwh = 0

\* a carbon-conscious driver inside the solar window (hours 10 to 15)
ArgSolar == /\ call.driver_preferences.carbon_conscious
            /\ HourOf(now) >= 10
            /\ HourOf(now) < 16
ArgSpeed == call.driver_preferences.priority = "speed"
ArgOffPeakCost == call.driver_preferences.priority = "cost" /\ ~ArgPeak

\* C6 (as stated): carbon overrides speed overrides cost: inside the solar
\* window a carbon-conscious driver gets GREEN even with priority speed or
\* with priority cost and no peak demand.
C6_CarbonOverrides ==
    (PlanReturned /\ ArgSolar /\ (ArgSpeed \/ ArgOffPeakCost)) =>
        ret[1].plan_type = "GREEN"

\* C6 (amended): the last rule that holds wins, cost over speed over carbon:
\* with priority speed the plan is FAST, with priority cost and no peak demand
\* it is ECONOMY, and it is GREEN only when neither of these rules holds.
C6_LastRuleWins ==
    (PlanReturned /\ ArgSolar) =>
        /\ ArgSpeed => ret[1].plan_type = "FAST"
        /\ ArgOffPeakCost => ret[1].plan_type = "ECONOMY"
        /\ (~ArgSpeed /\ ~ArgOffPeakCost) => ret[1].plan_type = "GREEN"
        /\ HasOffer(ret[1], "reward_points", 50)

\* the solar-window rule and the speed rule both hold
C6_Witness ==
    /\ PlanReturned
    /\ ArgSolar
    /\ ArgSpeed
    /\ ret[1].plan_type = "FAST"
    /\ HasOffer(ret[1], "reward_points", 50)

\* forecasted_demand = site_capacity = 500 and a feasible plan
ScenarioD == /\ PlanReturned
             /\ call.forecasted_demand = Some(500)
             /\ call.site_capacity = Some(500)
             /\ ret[1].is_feasible
\* the 15% discount offer at now + 2h
HasDelayOffer ==
    \E i \in DOMAIN ret[1].incentive_offers :
        /\ ret[1].incentive_offers[i].type = "discount"
        /\ ret[1].incentive_offers[i].value = 15
        /\ ret[1].incentive_offers[i].time_slot = Some(now + 2 * TicksPerHour)

\* C7 (as stated): Scenario D with slack of at least duration + 2h, exactly
\* duration + 2h included, has the 15% discount offer at now + 2h.
C7_DelayOfferAtLeast ==
    (ScenarioD /\ ArgSlack * PlanChargeTime[2]
                    >= (PlanChargeTime[1] + 2 * PlanChargeTime[2]) * TicksPerHour)
        => HasDelayOffer

\* C7 (amended): Scenario D has the 15% discount offer at now + 2h exactly when
\* the slack is strictly more than duration + 2h.
C7_DelayOfferStrictlyMore ==
    ScenarioD =>
        (HasDelayOffer <=>
            ArgSlack * PlanChargeTime[2]
                > (PlanChargeTime[1] + 2 * PlanChargeTime[2]) * TicksPerHour)

\* Scenario D with more slack than duration + 2h
C7_Witness ==
    /\ ScenarioD
    /\ ArgSlack * PlanChargeTime[2]
           > (PlanChargeTime[1] + 2 * PlanChargeTime[2]) * TicksPerHour
    /\ HasDelayOffer

\* C10: with energy_delivered_kwh = planned_energy_kwh > 0 and no discount,
\* calculate_actual_cost returns planned_cost rounded to 2 decimals.
C10_FullDeliveryCostsPlanned ==
    (/\ CostCallEnded
     /\ call.energy_delivered_kwh = call.planned_energy_kwh
     /\ call.planned_energy_kwh > 0
     /\ call.discount_percent = 0)
        => ret[1] = RoundHalfEvenNat(call.planned_cost, 10)

\* a planned cost with a third decimal, fully delivered, no discount
C10_Witness ==
    /\ CostCallEnded
    /\ call.energy_delivered_kwh = call.planned_energy_kwh
    /\ call.planned_energy_kwh > 0
    /\ call.discount_percent = 0
    /\ call.planned_cost % 10 # 0
    /\ ret[1] > 0

(***************************************************************************)
(* Properties of start_session, checked under Spec.                        *)
(***************************************************************************)
\* the handler that ran last is start_session
StartRan == lastReq.op = "start_session" /\ lastResp.op = "start_session"

\* what makes validate_did_access deny: a DID that is empty or of another
\* prefix, a driver with allowed sites none of which is the charger's, a
\* charger that is unavailable, a SoC outside 0..100, a capacity <= 0
AccessDenied(r) ==
    \/ r.driver.did.prefix # "did:denso:driver:"
    \/ r.vehicle.did.prefix # "did:denso:vehicle:"
    \/ r.charger.did.prefix # "did:denso:charger:"
    \/ (r.driver.allowed_sites # {} /\ r.charger.site_id \notin r.driver.allowed_sites)
    \/ ~r.charger.current_availability
    \/ r.vehicle.current_soc_percent < 0
    \/ r.vehicle.current_soc_percent > 100000
    \/ r.vehicle.battery_capacity_kwh <= 0

\* C8: a start_session whose access is denied is rejected with 403, does not
\* call calculate_charging_plan and leaves the session table unchanged.
C8_AccessIsAHardGate ==
    [][(/\ lastReq'.op = "start_session"
        /\ lastResp'.op = "start_session"
        /\ AccessDenied(lastReq'.request))
           => /\ lastResp'.status = 403
              /\ ~lastResp'.planner_called
              /\ lastResp'.body = None
              /\ sessions' = sessions]_vars

\* a request for an unavailable charger was rejected while the table holds a row
C8_Witness ==
    /\ StartRan
    /\ ~lastReq.request.charger.current_availability
    /\ lastResp.status = 403
    /\ ~lastResp.planner_called
    /\ Len(sessions) > 0

\* Step 3 of the start_session that ran last failed: no model, or predict raised
ForecastingFailed == StartRan /\ lastReq.forecast.kind # "forecast"
\* ... for a request that passes the access check and names a known charger
ForecastingFailedForAdmitted ==
    /\ ForecastingFailed
    /\ ~AccessDenied(lastReq.request)
    /\ DbCharger(lastReq.request.charger.did) # None

\* the plan is computed without forecast, the session created, no 15% offer
PlannedWithoutForecast ==
    /\ lastResp.status = 200
    /\ lastResp.planner_called
    /\ lastResp.forecasted_demand = None
    /\ lastResp.session_id \in DOMAIN sessions
    /\ lastResp.body # None
    /\ ~HasOffer(lastResp.body[1], "discount", 15)

\* C9: a forecasting failure during start_session never aborts it: the plan is
\* computed and the session created, forecasted_demand is absent and the plan
\* has no 15% peak-demand discount.
C9_ForecastFailureDoesNotAbort ==
    ForecastingFailedForAdmitted => PlannedWithoutForecast

\* C9 holds of every request whose departure_time is a naive datetime
C9_ForecastFailureDoesNotAbortNaive ==
    (ForecastingFailedForAdmitted
        /\ lastReq.request.trip.departure_time.tz = "naive")
            => PlannedWithoutForecast

(***************************************************************************)
(* Properties of the forecasting engine, checked under ForecasterSpec.     *)
(***************************************************************************)
\* a step of train up to its evaluation
TrainStep == lastReq'.op = "train"

\* C11: a train call that finds fewer than 100 completed sessions with
\* delivered energy ends with the ValueError and changes nothing: the artifact
\* file and what it holds stay as they were, nothing will be dumped, and the
\* instance keeps the model and the site encoder it had; with 100 or more the
\* call goes on to fit the model.
C11_InsufficientDataChangesNothing ==
    [][TrainStep =>
          IF lastReq'.usable < 100
          THEN /\ lastResp'.exc = "ValueError"
               /\ artifact' = artifact
               /\ artifactRun' = artifactRun
               /\ forecaster'.model = lastReq'.self.model
               /\ forecaster'.site_encoder = lastReq'.self.site_encoder
               /\ forecaster'.pc = "idle"
          ELSE /\ lastResp'.exc = "none"
               /\ forecaster'.pc = "fitted"]_vars

\* train has failed for want of one record, on an instance that holds a model,
\* with an artifact published
C11_Witness ==
    /\ lastReq.op = "train"
    /\ lastReq.usable = 99
    /\ lastResp.exc = "ValueError"
    /\ lastReq.self.model # None
    /\ forecaster.model = lastReq.self.model
    /\ artifact = "ok"

\* a step of predict
PredictStep == lastReq'.op = "predict"
\* the file as load_model would find it is not a complete artifact
NothingToLoad(file) == file \in {"missing", "corrupt", "partial"}

\* C12: predict on an instance that holds no model, when the artifact file is
\* missing or does not load, ends with the ValueError "Model not trained",
\* returns no forecast and writes no row; the outcome is the same record
\* whichever of the two it was.  With a model in memory or a file that loads
\* it returns forecasts.
C12_PredictNeedsAModel ==
    [][PredictStep =>
          IF lastReq'.self.model = None /\ NothingToLoad(lastReq'.file)
          THEN /\ lastResp' = [op |-> "predict", exc |-> "ValueError",
                               results |-> << >>, self |-> lastReq'.self,
                               features |-> << >>]
               /\ forecasts' = forecasts
          ELSE /\ lastResp'.exc = "none"
               /\ Len(lastResp'.results) = lastReq'.hours_ahead]_vars

\* predict has failed on a file that exists and does not load
C12_Witness ==
    /\ lastReq.op = "predict"
    /\ lastReq.self.model = None
    /\ lastReq.file = "corrupt"
    /\ lastResp.exc = "ValueError"

\* ... and on no file at all
C12_WitnessMissing ==
    /\ lastReq.op = "predict"
    /\ lastReq.self.model = None
    /\ lastReq.file = "missing"
    /\ lastResp.exc = "ValueError"

\* predict has returned forecasts
PredictReturned == lastResp.op = "predict" /\ lastResp.exc = "none"

\* C13: in every forecast predict returns, whatever the mean and the standard
\* deviation over the trees, 0 <= confidence_lower <= predicted_total_kwh
\* <= confidence_upper.
C13_IntervalBracketsForecast ==
    PredictReturned =>
        \A i \in DOMAIN lastResp.results :
            LET f == lastResp.results[i]
            IN  /\ 0 <= f.confidence_lower
                /\ f.confidence_lower <= f.predicted_total_kwh
                /\ f.predicted_total_kwh <= f.confidence_upper
                /\ 0 <= f.predicted_total_kwh

\* a forecast whose lower bound was clamped at 0 (mean - 1.96 sigma < 0) and
\* one with sigma = 0, whose three values coincide
C13_Witness ==
    /\ PredictReturned
    /\ Len(lastResp.results) = 2
    /\ lastReq.estimates[1] = <<12346, 10000>>
    /\ lastResp.results[1].confidence_lower = 0
    /\ lastResp.results[1].predicted_total_kwh = 1235
    /\ lastResp.results[1].confidence_upper = 3195
    /\ lastReq.estimates[2][2] = 0
    /\ lastResp.results[2].confidence_lower = lastResp.results[2].confidence_upper
    /\ lastResp.results[2].predicted_total_kwh > 0

(***************************************************************************)
(* Properties of the forecast table, checked under ForecastSpec.           *)
(***************************************************************************)
\* the hour an instant lies in, counted from the start of the clock
HourFloor(t) == t \div TicksPerHour
\* the row the table holds for a site and an hour, as a set
RowsFor(table, site_id, hour) ==
    {id \in DOMAIN table :
        table[id].site_id = site_id /\ HourFloor(table[id].time_slot) = hour}
\* a step that leaves a served forecast request as the last one
ForecastServed == lastReq'.op = "get_site_forecast" /\ lastResp'.status = 200

\* C14 (1): the table never holds two rows for the same site and hour.
C14_OneRowPerSiteAndHour ==
    \A id1, id2 \in DOMAIN forecasts :
        (/\ forecasts[id1].site_id = forecasts[id2].site_id
         /\ HourFloor(forecasts[id1].time_slot) = HourFloor(forecasts[id2].time_slot))
        => id1 = id2

\* C14: forecast rows are upserted by site and hour: after a request is served
\* the table holds, for its site and each of its hours, exactly one row, and
\* that row carries the values just computed; the rows of other sites and of
\* other hours are what they were.
C14_UpsertBySiteAndHour ==
    [][ForecastServed =>
          /\ \A i \in DOMAIN lastResp'.forecasts :
                LET f == lastResp'.forecasts[i]
                    rows == RowsFor(forecasts', lastReq'.site_id, HourFloor(f.time_slot))
                IN  /\ Cardinality(rows) = 1
                    /\ \A id \in rows :
                          /\ forecasts'[id].time_slot = f.time_slot
                          /\ forecasts'[id].predicted_total_kwh = f.predicted_total_kwh
                          /\ forecasts'[id].predicted_active_sessions
                                 = f.predicted_active_sessions
                          /\ forecasts'[id].confidence_lower = f.confidence_lower
                          /\ forecasts'[id].confidence_upper = f.confidence_upper
          /\ \A id \in DOMAIN forecasts :
                (\/ forecasts[id].site_id # lastReq'.site_id
                 \/ \A i \in DOMAIN lastResp'.forecasts :
                       HourFloor(lastResp'.forecasts[i].time_slot)
                           # HourFloor(forecasts[id].time_slot))
                => /\ id \in DOMAIN forecasts'
                   /\ forecasts'[id] = forecasts[id]
          /\ C14_OneRowPerSiteAndHour']_vars

\* a row was computed again later in its hour: it carries the later instant and
\* the later values, beside a row of the other site for the same hour and a row
\* of the same site for the next hour
C14_Witness ==
    /\ lastReq.op = "get_site_forecast"
    /\ lastResp.status = 200
    /\ lastReq.site_id = "site_hq"
    /\ lastReq.target_time = 10 * TicksPerHour - 1
    /\ \E id \in DOMAIN forecasts :
          /\ forecasts[id].site_id = "site_hq"
          /\ forecasts[id].time_slot = lastReq.target_time
          /\ forecasts[id].created_at = lastReq.target_time - 1
          /\ forecasts[id].predicted_total_kwh = 50000
    /\ \E id \in DOMAIN forecasts :
          /\ forecasts[id].site_id = "site_mall"
          /\ forecasts[id].time_slot = lastReq.target_time - 1
          /\ forecasts[id].predicted_total_kwh = 1235
    /\ \E id \in DOMAIN forecasts :
          /\ forecasts[id].site_id = "site_hq"
          /\ forecasts[id].time_slot = lastReq.target_time - 1 + TicksPerHour
    /\ Cardinality(DOMAIN forecasts) = 3

(***************************************************************************)
(* Training against readers, checked under ForecasterSpec.                 *)
(***************************************************************************)
\* load_model or predict ran last
ReaderRan == lastReq.op \in {"load_model", "predict"}

\* C15: the artifact is replaced atomically: no load_model or predict meets a
\* partially written file, and once a training run has published an artifact
\* every load_model succeeds and every predict returns forecasts, a train call
\* in progress or not.
C15_ArtifactReplacedAtomically ==
    ReaderRan =>
        /\ lastReq.file # "partial"
        /\ (lastReq.op = "load_model" /\ lastReq.run >= 1) => lastResp.ok
        /\ (lastReq.op = "predict" /\ lastReq.run >= 1) => lastResp.exc = "none"

\* What does hold: a load that succeeds takes the model and the site encoder
\* from one and the same completed run, the one whose dump the file holds.
C15_LoadedPartsFromOneRun ==
    (lastReq.op = "load_model" /\ lastResp.ok) =>
        /\ lastReq.file = "ok"
        /\ lastResp.self.model = Some(lastReq.run)
        /\ lastResp.self.site_encoder = Some(lastReq.run)
        /\ lastResp.self.feature_cols = FEATURE_COLS

(***************************************************************************)
(* Further properties of calculate_charging_plan, checked under            *)
(* PlannerSpec.                                                            *)
(***************************************************************************)
\* the call was made a second time
PlanCalledTwice == call.fn = "calculate_charging_plan" /\ ret # None /\ ret2 # None

ArgStatus == IF call.bbc_claims = None THEN "UNKNOWN" ELSE call.bbc_claims[1]
\* effective_charge_power_kw as the plan reports it, in 0.01 kW, were the
\* C-rate of the battery c_rate tenths: round(min(charger, vehicle,
\* c_rate * capacity) * 0.85, 2)
ReportedPowerAt(c_rate) ==
    RoundHalfEvenNat(
        Min(Min(call.charger.max_power_kw, call.vehicle.max_charge_power_kw),
            c_rate * call.vehicle.battery_capacity_kwh * 100) * 85, 1000)
\* the table as stated: the status of a battery in service is "IN_USE"
StatedCRate ==
    CASE ArgStatus = "IN_USE"      -> 15
      [] ArgStatus = "SECOND_LIFE" -> 7
      [] ArgStatus = "END_OF_LIFE" -> 3
      [] OTHER                     -> 10
\* the table with the status of a battery in service spelled "IN USE"
SpacedCRate ==
    CASE ArgStatus = "IN USE"      -> 15
      [] ArgStatus = "SECOND_LIFE" -> 7
      [] ArgStatus = "END_OF_LIFE" -> 3
      [] OTHER                     -> 10

\* C17 (as stated): the lifecycle limit is c_rate * capacity with c_rate 1.5
\* for status IN_USE, 0.7 for SECOND_LIFE, 0.3 for END_OF_LIFE and 1.0 for
\* UNKNOWN or no status; a plan for a battery of status IN_USE uses 1.5.
C17_CRateTable ==
    (PlanReturned /\ ArgStatus \in {"IN_USE", "SECOND_LIFE", "END_OF_LIFE", "UNKNOWN"})
        => ret[1].effective_charge_power_kw = ReportedPowerAt(StatedCRate)

\* C17 (amended): the rate 1.5 belongs to the status string "IN USE", with a
\* space; SECOND_LIFE has 0.7, END_OF_LIFE 0.3, and every other status, the
\* string "IN_USE" among them, and no status at all have 1.0.
C17_CRateTableSpaced ==
    PlanReturned =>
        /\ ret[1].effective_charge_power_kw = ReportedPowerAt(SpacedCRate)
        /\ ArgStatus = "IN_USE"
               => ret[1].effective_charge_power_kw = ReportedPowerAt(10)

\* a plan for a battery of status "IN USE" whose lifecycle limit, 112.5 kW, is
\* the smallest of the three: 95.625 kW, reported as 95.62
C17_Witness ==
    /\ PlanReturned
    /\ ArgStatus = "IN USE"
    /\ call.charger.max_power_kw = 150000
    /\ call.vehicle.max_charge_power_kw = 150000
    /\ call.vehicle.battery_capacity_kwh = 75
    /\ ret[1].effective_charge_power_kw = 9562

\* departure_time - now is more than the charging duration plus 2 hours
ArgFlexible ==
    ArgSlack * PlanChargeTime[2]
        > (PlanChargeTime[1] + 2 * PlanChargeTime[2]) * TicksPerHour
\* how many of the plan's offers are the 15% discount
DelayOffers ==
    Cardinality({i \in DOMAIN ret[1].incentive_offers :
                    /\ ret[1].incentive_offers[i].type = "discount"
                    /\ ret[1].incentive_offers[i].value = 15})
\* the plan type the carbon, speed and cost rules give, whatever the offers
TypeByRules ==
    IF call.driver_preferences.priority = "cost" /\ ~ArgPeak THEN "ECONOMY"
    ELSE IF call.driver_preferences.priority = "speed" THEN "FAST"
    ELSE IF /\ call.driver_preferences.carbon_conscious
            /\ HourOf(now) >= 10
            /\ HourOf(now) <= 16 THEN "GREEN"
    ELSE "STANDARD"

\* C18: a plan carries the grid-balancing offer (discount, 15, at now + 2h),
\* once, exactly when forecasted_demand / site_capacity > 0.8 with both
\* supplied, the plan is feasible, and departure_time - now is more than the
\* charging duration plus 2 hours; at a ratio of exactly 0.8 it carries none;
\* and the plan type is what the other rules make it, offer or no offer.
C18_GridBalancingOffer ==
    PlanReturned =>
        /\ HasDelayOffer <=> (ArgPeak /\ ret[1].is_feasible /\ ArgFlexible)
        /\ DelayOffers = (IF HasDelayOffer THEN 1 ELSE 0)
        /\ ret[1].plan_type = TypeByRules

\* the offer in a plan that no other rule touched: its type is STANDARD
C18_Witness ==
    /\ PlanReturned
    /\ HasDelayOffer
    /\ ArgPeak
    /\ ret[1].is_feasible
    /\ ArgSlack = 2 * TicksPerHour + 1
    /\ Len(ret[1].incentive_offers) = 1
    /\ ret[1].plan_type = "STANDARD"

\* a ratio of exactly 0.8, everything else in favour of the offer: none
C18_WitnessAtThreshold ==
    /\ PlanReturned
    /\ call.forecasted_demand = Some(400)
    /\ call.site_capacity = Some(500)
    /\ ret[1].is_feasible
    /\ ArgFlexible
    /\ ~HasDelayOffer

\* the reward_points offer of value 50
HasRewardOffer == HasOffer(ret[1], "reward_points", 50)
\* a later rule assigns the plan type: speed, or cost without peak demand
ArgLaterRule == ArgSpeed \/ ArgOffPeakCost

\* C19 (as stated): the plan has the reward_points offer of value 50, and the
\* solar-window rule makes it GREEN, exactly when the driver is carbon
\* conscious and the hour h of the evaluation satisfies 10 <= h < 16; at hour
\* 16 there is no such offer and the plan is not GREEN.
C19_SolarWindowHalfOpen ==
    PlanReturned =>
        /\ HasRewardOffer <=> ArgSolar
        /\ ret[1].plan_type = "GREEN" => ArgSolar
        /\ HourOf(now) = 16 => (~HasRewardOffer /\ ret[1].plan_type # "GREEN")

\* C19 (amended): the rule fires exactly when the driver is carbon conscious
\* and 10 <= h <= 16, hour 16 included: the plan then has the reward_points
\* offer of value 50 and is GREEN unless the speed or the cost rule assigns the
\* type afterwards; in every other case it has no such offer and is not GREEN.
C19_SolarWindowClosed ==
    PlanReturned =>
        LET fires == /\ call.driver_preferences.carbon_conscious
                     /\ 10 <= HourOf(now)
                     /\ HourOf(now) <= 16
        IN  /\ HasRewardOffer <=> fires
            /\ ret[1].plan_type = "GREEN" <=> (fires /\ ~ArgLaterRule)

\* the rule firing in hour 16
C19_Witness ==
    /\ PlanReturned
    /\ call.driver_preferences.carbon_conscious
    /\ HourOf(now) = 16
    /\ HasRewardOffer
    /\ ret[1].plan_type = "GREEN"

\* ... and not firing in hours 9 and 17
C19_WitnessOutside ==
    /\ PlanReturned
    /\ call.driver_preferences.carbon_conscious
    /\ HourOf(now) \in {9, 17}
    /\ ~HasRewardOffer

\* the rules that assign a plan type, as they fire on the call's arguments
CarbonRuleFired == /\ call.driver_preferences.carbon_conscious
                   /\ 10 <= HourOf(now)
                   /\ HourOf(now) <= 16
SpeedRuleFired == /\ call.driver_preferences.priority = "speed"
                  /\ ArgPowerLimit * 85 < call.charger.max_power_kw * 100
CostRuleFired == call.driver_preferences.priority = "cost" /\ ~ArgPeak

\* C20: every returned plan has one plan type, one of STANDARD, FAST, ECONOMY
\* and GREEN, and it is STANDARD exactly when none of the carbon, speed and
\* cost rules fired; the peak-demand discount alone leaves it STANDARD.
C20_StandardIffNoRuleFired ==
    PlanReturned =>
        /\ ret[1].plan_type \in {"STANDARD", "FAST", "ECONOMY", "GREEN"}
        /\ ret[1].plan_type = "STANDARD"
               <=> ~(CarbonRuleFired \/ SpeedRuleFired \/ CostRuleFired)
        /\ (HasDelayOffer /\ ~CarbonRuleFired /\ ~SpeedRuleFired /\ ~CostRuleFired)
               => ret[1].plan_type = "STANDARD"

\* priority cost at peak demand, outside the solar window, with the delay
\* offer as the plan's only offer: STANDARD
C20_Witness ==
    /\ PlanReturned
    /\ call.driver_preferences.priority = "cost"
    /\ call.driver_preferences.carbon_conscious
    /\ HourOf(now) = 17
    /\ ArgPeak
    /\ HasDelayOffer
    /\ ~HasOffer(ret[1], "discount", 10)
    /\ ret[1].plan_type = "STANDARD"

\* the carbon rule alone: a type other than STANDARD
C20_WitnessFired ==
    /\ PlanReturned
    /\ CarbonRuleFired
    /\ ~SpeedRuleFired
    /\ ~CostRuleFired
    /\ ret[1].plan_type = "GREEN"

(***************************************************************************)
(* Further properties of calculate_actual_cost, checked under PlannerSpec. *)
(***************************************************************************)
\* planned_cost * (energy_delivered / planned_energy) * (1 - discount / 100),
\* rounded to 2 decimals, in 0.01 EUR, for planned_energy > 0
StatedCost(planned_cost, energy_delivered, planned_energy, discount) ==
    LET g == GCD(energy_delivered, planned_energy)
    IN  RoundHalfEvenNat(planned_cost * (energy_delivered \div g) * (100 - discount),
                         (planned_energy \div g) * 1000)

\* C21: calculate_actual_cost returns planned_cost * (energy_delivered /
\* planned_energy) * (1 - discount_percent / 100) rounded to 2 decimals when
\* planned_energy > 0, and 0 when planned_energy is 0, whatever was delivered.
C21_ActualCostFormula ==
    CostCallEnded =>
        ret[1] = IF call.planned_energy_kwh > 0
                 THEN StatedCost(call.planned_cost, call.energy_delivered_kwh,
                                 call.planned_energy_kwh, call.discount_percent)
                 ELSE 0

\* 13.497 EUR planned for 38.55 kWh, 10 kWh delivered, 15% off: 2.98 EUR
C21_Witness ==
    /\ CostCallEnded
    /\ call.planned_cost = 13497
    /\ call.planned_energy_kwh = 3855000
    /\ call.energy_delivered_kwh = 1000000
    /\ call.discount_percent = 15
    /\ ret[1] = 298

\* nothing planned, 10 kWh delivered, a planned cost on record: 0
C21_WitnessNothingPlanned ==
    /\ CostCallEnded
    /\ call.planned_energy_kwh = 0
    /\ call.energy_delivered_kwh = 1000000
    /\ call.planned_cost > 0
    /\ ret[1] = 0

(***************************************************************************)
(* Further properties of the session endpoints, checked under Spec.        *)
(***************************************************************************)
\* the rows of completed sessions
Completed == {i \in DOMAIN sessions : sessions[i].status = "completed"}

\* C21, through complete_session: a completed session whose plan needed no
\* charging costs 0, whatever energy was delivered.
C21_NothingPlannedCostsNothing ==
    \A i \in Completed :
        sessions[i].planned_energy_kwh = 0 => sessions[i].final_cost_eur = Some(0)

C21_NothingPlannedCompleted ==
    \E i \in Completed :
        /\ sessions[i].planned_energy_kwh = 0
        /\ sessions[i].energy_delivered_kwh = Some(3855000)
        /\ sessions[i].final_cost_eur = Some(0)

(***************************************************************************)
(* Further properties of predict, checked under ForecasterSpec.            *)
(***************************************************************************)
\* C22 (as stated): in every forecast predicted_active_sessions is
\* max(1, round(mean / 30)), the nearest whole number of 30 kWh sessions: 2 for
\* a mean of 50 kWh.
C22_SessionsRounded ==
    PredictReturned =>
        \A i \in DOMAIN lastResp.results :
            lastResp.results[i].predicted_active_sessions
                = Max(1, RoundHalfEvenNat(lastReq.estimates[i][1], 30000))

\* C22 (amended): predicted_active_sessions is max(1, int(mean / 30)), the
\* whole 30 kWh sessions the mean holds: at least 1, and 1 for a mean of
\* 50 kWh.
C22_SessionsTruncated ==
    PredictReturned =>
        \A i \in DOMAIN lastResp.results :
            /\ lastResp.results[i].predicted_active_sessions
                   = Max(1, lastReq.estimates[i][1] \div 30000)
            /\ lastResp.results[i].predicted_active_sessions >= 1

\* a mean of 50 kWh: 1 session; a mean of 500 kWh: 16
C22_Witness ==
    /\ PredictReturned
    /\ Len(lastResp.results) = 2
    /\ lastReq.estimates[1][1] = 50000
    /\ lastResp.results[1].predicted_active_sessions = 1
    /\ lastReq.estimates[2][1] = 500000
    /\ lastResp.results[2].predicted_active_sessions = 16

\* the request met no session of the site in the 7 days before target_time
ColdSite == QuerySessions(lastReq.stored, lastReq.target_time) = << >>

\* C23 (as stated): on a cold site predict builds one feature row for every
\* requested hour, and in each of them historical_avg_kwh and
\* historical_session_count are both 0, the row of the first hour included.
C23_ColdSiteStatisticsZero ==
    (PredictReturned /\ ColdSite) =>
        /\ Len(lastResp.features) = lastReq.hours_ahead
        /\ \A i \in DOMAIN lastResp.features :
               /\ lastResp.features[i].historical_avg_kwh = <<0, 1>>
               /\ lastResp.features[i].historical_session_count = <<0, 1>>

\* What the code does on a cold site: one row for every hour, the average 0 in
\* all of them, and the session count 1/7 in the row of the first hour, which
\* counts the dummy row, and 0 in the later rows.
C23_ColdSiteCountsTheDummyRow ==
    (PredictReturned /\ ColdSite) =>
        /\ Len(lastResp.features) = lastReq.hours_ahead
        /\ \A i \in DOMAIN lastResp.features :
               /\ lastResp.features[i].time_slot
                      = lastReq.target_time + (i - 1) * TicksPerHour
               /\ lastResp.features[i].historical_avg_kwh = <<0, 1>>
               /\ lastResp.features[i].historical_session_count
                      = IF i = 1 THEN <<1, 7>> ELSE <<0, 1>>

\* a cold site (its only sessions are older than 7 days or still active would
\* not count either) asked for two hours
C23_ColdSiteServed ==
    /\ PredictReturned
    /\ ColdSite
    /\ lastReq.stored = << >>
    /\ Len(lastResp.features) = 2
    /\ lastResp.features[1].historical_session_count = <<1, 7>>
    /\ lastResp.features[2].historical_session_count = <<0, 1>>

\* a site with history: the session of the last hour is counted, the older and
\* the active one are not
C23_WarmSiteServed ==
    /\ PredictReturned
    /\ Len(lastReq.stored) = 3
    /\ Len(lastResp.features) = 2
    /\ lastResp.features[1].historical_avg_kwh = <<3855000, 1>>
    /\ lastResp.features[1].historical_session_count = <<1, 7>>

(***************************************************************************)
(* Properties of the session store.                                        *)
(***************************************************************************)
\* the three values a completion records are all set
CompletionRecorded(s) ==
    /\ s.end_time # None
    /\ s.energy_delivered_kwh # None
    /\ s.final_cost_eur # None

\* every row is active or completed, and completed exactly when the three
\* values are set
StoreShape ==
    \A i \in DOMAIN sessions :
        /\ sessions[i].status \in {"active", "completed"}
        /\ sessions[i].status = "completed" <=> CompletionRecorded(sessions[i])

\* a step keeps every row, keeps a completed row completed, and keeps the
\* planned fields of every row
StoreStep ==
    \A i \in DOMAIN sessions :
        /\ i \in DOMAIN sessions'
        /\ sessions[i].status = "completed" => sessions'[i].status = "completed"
        /\ sessions'[i].planned_energy_kwh = sessions[i].planned_energy_kwh
        /\ sessions'[i].planned_cost_eur = sessions[i].planned_cost_eur
        /\ sessions'[i].discount_applied_percent = sessions[i].discount_applied_percent

\* C24: in the session store driven by start_session and complete_session every
\* row has status active or completed, is completed if and only if end_time,
\* energy_delivered_kwh and final_cost_eur are all set, and no operation moves a
\* completed row back to active or changes planned_energy_kwh, planned_cost_eur
\* or discount_applied_percent of a row.
C24_SessionStoreInvariants == []StoreShape /\ [][StoreStep]_vars

\* one session completed with a discount stored, another still active, and a
\* completion answered last
C24_Witness ==
    /\ Len(sessions) = 2
    /\ sessions[1].status = "completed"
    /\ CompletionRecorded(sessions[1])
    /\ sessions[1].discount_applied_percent > 0
    /\ sessions[2].status = "active"
    /\ ~CompletionRecorded(sessions[2])
    /\ lastResp.op = "complete_commit"
    /\ lastResp.status = 200

\* a step that is a complete request for session_id reaching its query
CompleteStep(session_id) ==
    /\ now' = now
    /\ lastReq'.op \in {"complete_session", "complete_query"}
    /\ lastReq'.session_id = session_id

\* what a completion recorded on a row stays as it is
CompletedOnceStep ==
    \A i \in DOMAIN sessions :
        sessions[i].status = "completed" =>
            /\ sessions'[i].end_time = sessions[i].end_time
            /\ sessions'[i].energy_delivered_kwh = sessions[i].energy_delivered_kwh
            /\ sessions'[i].final_soc_percent = sessions[i].final_soc_percent
            /\ sessions'[i].final_cost_eur = sessions[i].final_cost_eur

\* a complete request for a completed row is answered 400, one for an unknown
\* id 404, and neither changes the table
RejectedStep ==
    \A session_id \in 1..MaxSessions :
        CompleteStep(session_id) =>
            /\ (session_id \in DOMAIN sessions /\ sessions[session_id].status = "completed")
                   => /\ lastResp'.status = 400
                      /\ lastResp'.detail = "Session already completed"
                      /\ sessions' = sessions
            /\ session_id \notin DOMAIN sessions
                   => /\ lastResp'.status = 404
                      /\ sessions' = sessions

\* C25 (as stated): a session is completed at most once.  complete_session on a
\* completed session is rejected with "Session already completed" and leaves
\* end_time, energy_delivered_kwh, final_soc_percent and final_cost_eur as they
\* are, also when two complete requests for the same active session interleave;
\* complete_session on an unknown id is rejected and changes nothing.
C25_CompletedAtMostOnce == [][CompletedOnceStep /\ RejectedStep]_vars

\* The rejections alone: they hold under any interleaving.
C25_RejectionsChangeNothing == [][RejectedStep]_vars

\* two requests for session 1 have both passed the check of its status
C25_BothPassedTheCheck ==
    \E p, q \in inflight :
        /\ p # q
        /\ p.session_id = q.session_id
        /\ sessions[p.session_id].status = "active"

\* the second of them has committed over the first: the row is completed with
\* the energy of the request answered last, while the other request that was
\* answered 200 is no longer in flight
C25_SecondCommitOverwrote ==
    /\ Len(sessions) >= 1
    /\ inflight = {}
    /\ sessions[1].status = "completed"
    /\ sessions[1].end_time = Some(10 * TicksPerHour)
    /\ sessions[1].start_time = 10 * TicksPerHour - 1
    /\ lastResp.op = "complete_commit"
    /\ sessions[1].energy_delivered_kwh = Some(1000000)
    /\ sessions[1].final_soc_percent = Some(86400)

(***************************************************************************)
(* Further properties of calculate_charging_plan, checked under            *)
(* PlannerSpec.                                                            *)
(***************************************************************************)
\* C26: for priority "speed" the plan is FAST: min(charger, vehicle, C-rate
\* limit) * 0.85 is strictly below charger.max_power_kw, so the speed rule
\* fires; FAST replaces the GREEN of the solar-window rule, whose offer stays;
\* the rule adds no offer of its own, and effective_charge_power_kw is the
\* rounded minimum times 0.85 as for any other priority.
C26_SpeedIsAlwaysFast ==
    (PlanReturned /\ call.driver_preferences.priority = "speed") =>
        /\ ArgPowerLimit * 85 < call.charger.max_power_kw * 100
        /\ ret[1].plan_type = "FAST"
        /\ HasRewardOffer <=> CarbonRuleFired
        /\ ~HasOffer(ret[1], "discount", 10)
        /\ Len(ret[1].incentive_offers)
               = (IF HasDelayOffer THEN 1 ELSE 0) + (IF HasRewardOffer THEN 1 ELSE 0)
        /\ ret[1].effective_charge_power_kw = RoundHalfEvenNat(ArgPowerLimit * 85, 1000)

\* speed asked by a carbon-conscious driver in the solar window: FAST, with
\* the reward offer as the only offer
C26_Witness ==
    /\ PlanReturned
    /\ call.driver_preferences.priority = "speed"
    /\ CarbonRuleFired
    /\ ret[1].plan_type = "FAST"
    /\ HasRewardOffer
    /\ Len(ret[1].incentive_offers) = 1
    /\ call.charger.max_power_kw = 50000
    /\ ret[1].effective_charge_power_kw = 935

\* the offers of the plan, each named by its type and value
OfferKinds == [i \in DOMAIN ret[1].incentive_offers |->
                  <<ret[1].incentive_offers[i].type, ret[1].incentive_offers[i].value>>]
\* the three offers in source order
OfferOrder == << <<"discount", 15>>, <<"reward_points", 50>>, <<"discount", 10>> >>
\* where an offer stands in that order (0 for any other offer)
OfferRank(kind) ==
    IF \E k \in DOMAIN OfferOrder : OfferOrder[k] = kind
    THEN CHOOSE k \in DOMAIN OfferOrder : OfferOrder[k] = kind
    ELSE 0

\* C27: a plan holds at most two offers, each one of the 15% peak discount, the
\* 50 reward points and the 10% off-peak discount, in that order and none
\* twice; never both discounts; and an infeasible plan has no 15% discount.
C27_OffersOrderedAtMostTwo ==
    PlanReturned =>
        /\ Len(OfferKinds) <= 2
        /\ \A i \in DOMAIN OfferKinds : OfferRank(OfferKinds[i]) > 0
        /\ \A i, j \in DOMAIN OfferKinds :
               i < j => OfferRank(OfferKinds[i]) < OfferRank(OfferKinds[j])
        /\ ~(HasDelayOffer /\ HasOffer(ret[1], "discount", 10))
        /\ ~ret[1].is_feasible => ~HasDelayOffer

\* two offers: the 15% discount before the reward points
C27_Witness ==
    /\ PlanReturned
    /\ OfferKinds = << <<"discount", 15>>, <<"reward_points", 50>> >>
    /\ ArgPeak
    /\ ret[1].is_feasible

\* two offers: the reward points before the 10% discount
C27_WitnessOffPeak ==
    /\ PlanReturned
    /\ OfferKinds = << <<"reward_points", 50>>, <<"discount", 10>> >>
    /\ ~ArgPeak

\* peak demand and time to spare, but the plan is infeasible: no 15% discount
C27_WitnessInfeasible ==
    /\ PlanReturned
    /\ ArgPeak
    /\ ~ret[1].is_feasible
    /\ ~HasDelayOffer

(***************************************************************************)
(* Further properties of the session service, checked under Spec.          *)
(***************************************************************************)
\* start_session has stored a session
SessionStarted == lastReq.op = "start_session" /\ lastResp.status = 200

\* C28: start_session hands no lifecycle status to the planner, so the row it
\* stores has effective_charge_power_kw = round(min(charger.max_power_kw,
\* vehicle.max_charge_power_kw, 1.0 * battery_capacity_kwh) * 0.85, 2), the
\* power at the C-rate of an UNKNOWN battery.
C28_SessionsPlannedAtUnknownCRate ==
    SessionStarted =>
        LET request == lastReq.request
            row == sessions[lastResp.session_id]
            unknown == LIFECYCLE_CRATE_LIMITS(LifecycleStatus(None))
        IN  /\ unknown = 10
            /\ row.effective_charge_power_kw
                   = RoundHalfEvenNat(
                         Min(Min(request.charger.max_power_kw,
                                 request.vehicle.max_charge_power_kw),
                             request.vehicle.battery_capacity_kwh * 1000) * 85, 1000)
            /\ row.effective_charge_power_kw = lastResp.body[1].effective_charge_power_kw

\* a 75 kWh battery at a 150 kW charger: 75 kW * 0.85 = 63.75 kW stored
C28_Witness ==
    /\ SessionStarted
    /\ lastReq.request.charger.max_power_kw = 150000
    /\ lastReq.request.vehicle.max_charge_power_kw = 150000
    /\ lastReq.request.vehicle.battery_capacity_kwh = 75
    /\ sessions[lastResp.session_id].effective_charge_power_kw = 6375

\* the value of the first offer of type discount in a list of offers, else 0
RECURSIVE FirstDiscount(_)
FirstDiscount(offers) ==
    IF offers = << >> THEN 0
    ELSE IF Head(offers).type = "discount" THEN Head(offers).value
    ELSE FirstDiscount(Tail(offers))

\* C29: the discount_applied_percent start_session stores is the value of the
\* first discount offer of the plan, 0 without one, and so one of 0, 10, 15;
\* complete_session applies that stored discount; and a completed session with
\* planned_energy_kwh > 0 has 0 <= final_cost_eur <= planned_cost_eur *
\* energy_delivered_kwh / planned_energy_kwh, rounded to cents.
C29_StoredDiscountApplied ==
    /\ SessionStarted =>
           sessions[lastResp.session_id].discount_applied_percent
               = FirstDiscount(lastResp.body[1].incentive_offers)
    /\ \A i \in DOMAIN sessions :
           LET s == sessions[i]
           IN  /\ s.discount_applied_percent \in {0, 10, 15}
               /\ s.status = "completed" =>
                      /\ s.final_cost_eur[1] >= 0
                      /\ s.planned_energy_kwh > 0 =>
                             /\ s.final_cost_eur[1]
                                    = StatedCost(s.planned_cost_eur * 10,
                                                 s.energy_delivered_kwh[1],
                                                 s.planned_energy_kwh,
                                                 s.discount_applied_percent)
                             /\ s.final_cost_eur[1]
                                    <= StatedCost(s.planned_cost_eur * 10,
                                                  s.energy_delivered_kwh[1],
                                                  s.planned_energy_kwh, 0)

\* 38.55 kWh planned for 13.49 EUR with the 15% discount stored, 10 kWh
\* delivered: 13.49 * 10 / 38.55 * 0.85 = 2.97 EUR
C29_Witness ==
    /\ Len(sessions) >= 1
    /\ sessions[1].status = "completed"
    /\ sessions[1].planned_energy_kwh = 3855000
    /\ sessions[1].planned_cost_eur = 1349
    /\ sessions[1].discount_applied_percent = 15
    /\ sessions[1].energy_delivered_kwh = Some(1000000)
    /\ sessions[1].final_cost_eur = Some(297)

\* the 10% discount stored from a plan whose first offer is the reward points
C29_WitnessSecondOffer ==
    /\ SessionStarted
    /\ Len(lastResp.body[1].incentive_offers) = 2
    /\ lastResp.body[1].incentive_offers[1].type = "reward_points"
    /\ sessions[lastResp.session_id].discount_applied_percent = 10

\* what holds of a plan that needs no extra energy, and of a departure in the
\* past
NothingToCharge ==
    /\ ret[1].extra_energy_needed_kwh = 0 =>
           /\ ret[1].planned_duration_hours = 0
           /\ ret[1].planned_finish_time = now
           /\ ret[1].is_feasible <=> ArgSlack >= 0
    /\ ArgSlack < 0 =>
           /\ ~ret[1].is_feasible
           /\ ret[1].feasibility_warning # None

\* C30 (as stated): with extra_energy_needed_kwh = 0 the plan has
\* planned_duration_hours = 0 and planned_finish_time = now, and is feasible
\* exactly when departure_time >= now; a departure in the past gives
\* is_feasible = false with a warning; and in any plan planned_duration_hours is
\* 0 if and only if extra_energy_needed_kwh is 0.
C30_DurationZeroIffNoExtraEnergy ==
    PlanReturned =>
        /\ NothingToCharge
        /\ ret[1].planned_duration_hours = 0 <=> ret[1].extra_energy_needed_kwh = 0

\* C30 (amended): the same, but planned_duration_hours, which is rounded to 3
\* decimals, is 0 exactly when extra energy / effective power is at most
\* 0.0005 h; it is the duration before rounding, extra energy / effective power
\* with a positive effective power, that is 0 if and only if extra energy is 0.
C30_RoundedDurationZero ==
    PlanReturned =>
        /\ NothingToCharge
        /\ ArgPowerLimit * 85 > 0
        /\ PlanChargeTime[1] = 0 <=> ret[1].extra_energy_needed_kwh = 0
        /\ ret[1].planned_duration_hours
               = RoundHalfEvenNat(PlanChargeTime[1] * 1000, PlanChargeTime[2])
        /\ ret[1].planned_duration_hours = 0
               <=> ret[1].extra_energy_needed_kwh <= (ArgPowerLimit * 85) \div 2000

\* nothing to charge and a departure one tick in the past: infeasible, warned
C30_Witness ==
    /\ PlanReturned
    /\ ret[1].extra_energy_needed_kwh = 0
    /\ ArgSlack = 0 - 1
    /\ ret[1].planned_duration_hours = 0
    /\ ret[1].planned_finish_time = now
    /\ ~ret[1].is_feasible
    /\ ret[1].feasibility_warning # None

\* nothing to charge and a departure at the evaluation instant: feasible
C30_WitnessLeavingNow ==
    /\ PlanReturned
    /\ ret[1].extra_energy_needed_kwh = 0
    /\ ArgSlack = 0
    /\ ret[1].is_feasible

\* 0.0075 kWh to charge at 63.75 kW: 0.00012 h, a planned_duration_hours of 0
C30_WitnessRoundedToZero ==
    /\ PlanReturned
    /\ call.vehicle.current_soc_percent = 34550
    /\ call.trip.distance_km = 120
    /\ ret[1].extra_energy_needed_kwh = 750
    /\ ret[1].effective_charge_power_kw = 6375
    /\ ret[1].planned_duration_hours = 0

====
